---- MODULE Spec2Model ----
(***************************************************************************)
(* pinMonitor: debounced GPIO event delivery and Wi-Fi bring-up.           *)
(*                                                                         *)
(* The module models the latest revision of each component:                *)
(*   components/debounce/debounce.c   (debounce.h lines 289-510)           *)
(*   main/main.c                      (unnamed/part_003)                   *)
(*   wifi_provisioning.c              (unnamed/part_000)                   *)
(*   web_server.c                     (wifi_provisioning.c lines 91-411)   *)
(* Earlier revisions kept in the tree are used only as sources of mutants. *)
(*                                                                         *)
(* The specifications share the variables:                                 *)
(*   SpecReg      debounce_init / debounce_register_pin, call by call      *)
(*   SpecRegSteps debounce_register_pin statement by statement, with ISRs  *)
(*   SpecDebounce edges, timer service, timer callback, consumer task      *)
(*   SpecBurst    one burst of edges on one pin                            *)
(*   SpecBoot     app_main, wifi_provisioning_start, wifi_init_sta_ext     *)
(*   SpecBootLive SpecBoot with weak fairness of its steps                 *)
(*   SpecSubmit   submit_post_handler (form decoding and persistence)      *)
(*   SpecLife     the boot followed by the operator's submit               *)
(*   SpecConsumer SpecDebounce with the consumer task scheduled fairly     *)
(*   SpecSubmitLog submits over short identities and secrets (logging)     *)
(*   SpecServer   the boot with web_server_start / web_server_stop calls   *)
(*   SpecReboot   a submit, the restart and the boot that follows          *)
(*   SpecProv     wifi_provisioning_start called any number of times       *)
(*   SpecManager  wifi_manager: set_state, the getter and the observer     *)
(***************************************************************************)
EXTENDS Integers, Sequences, FiniteSets, TLC

VARIABLES
    \* ---- debounce.c module state and the driver state it programs
    s_entries,       \* static debounce_entry_t s_entries[MAX_DEBOUNCE_PINS]
    s_count,         \* static int s_count
    timers,          \* FreeRTOS software timers, by handle
    isr_handlers,    \* GPIO driver: pin -> argument bound by gpio_isr_handler_add
    isr_service,     \* GPIO driver: gpio_install_isr_service done
    gpio_cfg,        \* GPIO driver: pin -> mode programmed by gpio_config
    ret,             \* the last API call of the component and what it returned
    \* ---- run time
    level,           \* electrical level of each pin
    cmdq,            \* FreeRTOS timer command queue (ISR -> timer service task)
    gpio_event_queue,\* main.c: the queue handle is non-NULL
    queue,           \* contents of gpio_event_queue
    drop_count,      \* the drop counter the specification calls for
    last,            \* outcome of the step just taken (callback or publish)
    phase,           \* position of the clock inside the current tick period
    sinceEdge,       \* time since the last edge on each pin (saturating)
    credit,          \* bursts begun minus Events enqueued, per pin
    \* ---- boot: main.c app_main and wifi_provisioning.c
    nvs,             \* non-volatile storage: namespace -> keys -> string
    erase_on_boot,   \* the build sets CONFIG_PINMON_ERASE_WIFI_ON_BOOT
    assoc_at,        \* network: first association poll that succeeds, 0 if none
    pc,              \* position of the startup task
    retry_count,     \* static int retry_count
    s_wifi_started,  \* static bool s_wifi_started
    prov_ret,        \* what wifi_provisioning_start returned
    reconnects,      \* STA_DISCONNECTED events handled while waiting
    trace,           \* connectivity states the device went through
    bootlog,         \* driver calls made by the startup task, in order
    \* ---- provisioning: web_server.c submit_post_handler
    form,            \* what the operator typed into the form
    http,            \* status of the last response of the configuration server
    persist_ok,      \* every NVS call of the last submit succeeded
    errlog,          \* ESP_LOGE lines written by submit_post_handler
    infolog,         \* ESP_LOGI lines written by submit_post_handler
    s_server,        \* web_server.c: static httpd_handle_t s_server
    httpd,           \* number of HTTP server instances running
    \* ---- wifi_manager.c
    current_state,   \* static wifi_state_t current_state
    state_cb,        \* static wifi_manager_callback_t state_cb (non-NULL)
    notified,        \* states the observer callback was called with, in order
    cb_seen,         \* what wifi_manager_get_state returned inside each callback
    \* ---- bookkeeping
    prov_failed,     \* driver call of wifi_provisioning_start that failed
    reg              \* a debounce_register_pin call in progress: its locals

debVars == <<s_entries, s_count, timers, isr_handlers, isr_service, gpio_cfg, ret>>
rtVars  == <<level, cmdq, gpio_event_queue, queue, drop_count, last, phase,
            sinceEdge, credit>>
bootVars == <<nvs, erase_on_boot, assoc_at, pc, retry_count, s_wifi_started,
              prov_ret, reconnects, trace, bootlog>>
subVars == <<form, http, persist_ok>>
mgrVars == <<current_state, state_cb, notified, cb_seen>>
srvVars == <<s_server, httpd>>
extVars == <<mgrVars, errlog, infolog, srvVars, prov_failed, reg>>
appVars == <<bootVars, subVars, extVars>>
vars    == <<debVars, rtVars, appVars>>

(***************************************************************************)
(* Constants of the program and bounds of the model                        *)
(***************************************************************************)
NULL == 0
\* debounce.c: #define MAX_DEBOUNCE_PINS 10
MAX_DEBOUNCE_PINS == 10
\* CONFIG_FREERTOS_HZ of the build (sdkconfig, not in the tree)
TickRateHz == 20
\* capacity of the queue the application hands to the component
\* (main.c creates it with 10 slots)
QueueCapacity == 2
\* configTIMER_QUEUE_LENGTH of the build (sdkconfig, not in the tree)
TimerQueueLen == 1
\* the clock advances in steps of 1/UnitsPerTick of a tick period
UnitsPerTick == 2
\* cap on the bursts counted ahead of their Events
MaxCredit == 1

Slots   == 1 .. MAX_DEBOUNCE_PINS
Handles == 1 .. (MAX_DEBOUNCE_PINS + 1)
Pins    == {4, 5}

Min(a, b) == IF a < b THEN a ELSE b
Max(a, b) == IF a > b THEN a ELSE b

(***************************************************************************)
(* debounce_config_t values used by main.c                                 *)
(***************************************************************************)
Pin4Cfg ==
    [pin |-> 4, intr_type |-> "ANYEDGE", pull_up |-> TRUE, pull_down |-> FALSE,
     debounce_time_us |-> 50 * 1000, report_level |-> 1,
     mqtt_topic |-> "/pinMonitor/gpio4"]

Pin5Cfg ==
    [pin |-> 5, intr_type |-> "ANYEDGE", pull_up |-> TRUE, pull_down |-> FALSE,
     debounce_time_us |-> 75 * 1000, report_level |-> 0,
     mqtt_topic |-> "/pinMonitor/gpio5"]

Configs == {Pin4Cfg, Pin5Cfg}

\* zero-initialised static storage
ZeroCfg ==
    [pin |-> 0, intr_type |-> "DISABLE", pull_up |-> FALSE, pull_down |-> FALSE,
     debounce_time_us |-> 0, report_level |-> 0, mqtt_topic |-> "NULL"]

ZeroEntry == [config |-> ZeroCfg, tmr |-> NULL, debounce_ticks |-> 0]

NoTimer == [alive |-> FALSE, id |-> NULL, active |-> FALSE, rem |-> 0, period |-> 0]

GpioUnset == [configured |-> FALSE, intr_type |-> "DISABLE",
              pull_up |-> FALSE, pull_down |-> FALSE]

(***************************************************************************)
(* debounce_register_pin, step 2: period in ticks                          *)
(***************************************************************************)
pdMS_TO_TICKS(ms) == (ms * TickRateHz) \div 1000

\* a uint32_t is kept as two 16-bit halves, hi * 2^16 + lo
U16 == 65536

\* uint32_t addition of a small constant: the sum wraps at 2^32
AddU32(hi, lo, k) ==
    [hi |-> (hi + (lo + k) \div U16) % U16, lo |-> (lo + k) % U16]

\* uint32_t division by a divisor below 2^15
DivU32(hi, lo, d) == (hi \div d) * U16 + ((hi % d) * U16 + lo) \div d

\* TickType_t ticks = pdMS_TO_TICKS((config->debounce_time_us + 999) / 1000);
\* if (ticks == 0) ticks = 1;
DebounceTicksU32(hi, lo) ==
    LET sum   == AddU32(hi, lo, 999)
        ticks == pdMS_TO_TICKS(DivU32(sum.hi, sum.lo, 1000))
    IN  IF ticks = 0 THEN 1 ELSE ticks

DebounceTicks(us) == DebounceTicksU32(us \div U16, us % U16)

(***************************************************************************)
(* FreeRTOS xTimerCreate: a new dormant timer, or NULL when the heap is    *)
(* exhausted.  The lowest free handle stands for the allocation.           *)
(***************************************************************************)
xTimerCreate(tm, heap_ok) ==
    LET free == {h \in Handles : ~tm[h].alive}
    IN  IF heap_ok /\ free # {}
        THEN CHOOSE h \in free : \A g \in free : h <= g
        ELSE NULL

\* a failure path that returns without releasing the timer
xTimerDelete_skipped(tm, h) == tm

\* FreeRTOS xTimerDelete: the timer is freed.  (The delete request goes
\* through the timer command queue; on this path the ISR service is missing,
\* so no ISR has posted to that queue and the request is accepted.)
xTimerDelete(tm, h) == [tm EXCEPT ![h] = NoTimer]

(***************************************************************************)
(* debounce_register_pin(config).  st is the component and driver state;   *)
(* env gives the results of gpio_config and of the timer allocation.       *)
(* gpio_isr_handler_add fails exactly when the ISR service is missing.     *)
(***************************************************************************)
debounce_register_pin_rev1(st, config, env) ==
    \* the first revision (components/debounce/debounce.c): the GPIO is
    \* configured, the timer created and the ISR bound before and whatever
    \* the capacity test says, and no result of the driver is looked at
    LET tmr == xTimerCreate(st.timers, TRUE)
        e   == st.s_count + 1
        st1 == [st EXCEPT !.gpio_cfg[config.pin] =
                    [configured |-> TRUE, intr_type |-> config.intr_type,
                     pull_up |-> config.pull_up, pull_down |-> config.pull_down]]
        st2 == IF tmr = NULL THEN st1
               ELSE [st1 EXCEPT !.timers[tmr] =
                        [alive |-> TRUE, id |-> NULL, active |-> FALSE,
                         rem |-> 0, period |-> 0]]
        st3 == IF st.s_count < MAX_DEBOUNCE_PINS
               THEN [st2 EXCEPT !.s_entries[e] =
                        [config |-> config, tmr |-> tmr,
                         debounce_ticks |-> DebounceTicks(config.debounce_time_us)],
                                !.s_count = e]
               ELSE st2
    IN  [st3 EXCEPT !.isr_handlers[config.pin] = Min(e, MAX_DEBOUNCE_PINS),
                    !.ret = IF st.s_count < MAX_DEBOUNCE_PINS
                            THEN "ESP_OK" ELSE "ESP_ERR_NO_MEM"]

debounce_register_pin(st, config, env) ==
    IF st.s_count >= MAX_DEBOUNCE_PINS
    THEN [st EXCEPT !.ret = "ESP_ERR_NO_MEM"]
    ELSE IF ~env.gpio_ok
    THEN [st EXCEPT !.ret = "ESP_ERR_INVALID_ARG"]
    ELSE
      LET st1   == [st EXCEPT !.gpio_cfg[config.pin] =
                       [configured |-> TRUE, intr_type |-> config.intr_type,
                        pull_up |-> config.pull_up, pull_down |-> config.pull_down]]
          ticks == DebounceTicks(config.debounce_time_us)
          tmr   == xTimerCreate(st1.timers, env.heap_ok)
          e     == st.s_count + 1
      IN  IF tmr = NULL
          THEN [st1 EXCEPT !.ret = "ESP_ERR_NO_MEM"]
          ELSE
            LET st2 == [st1 EXCEPT
                          !.timers[tmr] = [alive |-> TRUE, id |-> e, active |-> FALSE,
                                           rem |-> 0, period |-> ticks],
                          !.s_entries[e] = [config |-> config, tmr |-> tmr,
                                            debounce_ticks |-> ticks]]
            IN  IF ~st.isr_service
                THEN [st2 EXCEPT !.timers = xTimerDelete(@, tmr),
                                 !.ret = "ESP_ERR_INVALID_STATE"]
                ELSE [st2 EXCEPT !.isr_handlers[config.pin] = e,
                                 !.s_count = e,
                                 !.ret = "ESP_OK"]

DebState ==
    [s_entries |-> s_entries, s_count |-> s_count, timers |-> timers,
     isr_handlers |-> isr_handlers, isr_service |-> isr_service,
     gpio_cfg |-> gpio_cfg, ret |-> "ESP_OK"]

DebStateZero ==
    [s_entries |-> [e \in Slots |-> ZeroEntry], s_count |-> 0,
     timers |-> [h \in Handles |-> NoTimer],
     isr_handlers |-> [p \in Pins |-> NULL], isr_service |-> FALSE,
     gpio_cfg |-> [p \in Pins |-> GpioUnset], ret |-> "ESP_OK"]

NoCall == [op |-> "none", pin |-> 0, code |-> "ESP_OK"]
NoStep == [op |-> "none", pin |-> 0, level |-> 0, result |-> "none"]

(***************************************************************************)
(* Non-volatile storage.  Strings are sequences of bytes; a key that was   *)
(* never written holds Absent.                                             *)
(***************************************************************************)
Absent == <<0 - 1>>

Namespaces == {"wifi_store", "mqtt_store"}
NvsKeys    == {"ssid", "password", "pass", "uri", "user"}

NvsErased ==
    [ns \in Namespaces |-> [exists |-> FALSE, kv |-> [k \in NvsKeys |-> Absent]]]

\* static httpd_handle_t s_server = NULL: no server runs at power-on
ServerOff == s_server = NULL /\ httpd = 0

\* the server start_softap_provisioning started
ServerOn == s_server = 1 /\ httpd = 1

\* no debounce_register_pin call is in progress
NoReg == [pc |-> "idle", config |-> ZeroCfg, tmr |-> NULL, ticks |-> 0]

\* wifi_manager.c at power-on (no observer registered), nothing logged,
\* nothing failed, no registration in progress
ExtInit ==
    /\ current_state = "WIFI_STATE_INIT"
    /\ state_cb = FALSE
    /\ notified = <<>>
    /\ cb_seen = <<>>
    /\ errlog = <<>>
    /\ infolog = <<>>
    /\ prov_failed = "none"
    /\ reg = NoReg

\* the startup task is not part of the behaviours of this specification
StartupNotModelled(where, states) ==
    /\ nvs = NvsErased
    /\ erase_on_boot = FALSE
    /\ assoc_at = 0
    /\ pc = where
    /\ retry_count = 0
    /\ s_wifi_started = FALSE
    /\ prov_ret = "none"
    /\ reconnects = 0
    /\ trace = states
    /\ bootlog = <<>>
    /\ form = [ssid |-> <<>>, pass |-> <<>>, mpass |-> <<>>]
    /\ http = "none"
    /\ persist_ok = TRUE
    /\ ExtInit
    /\ ServerOff

(***************************************************************************)
(* Registration: the API as any caller may use it                          *)
(***************************************************************************)
\* state of the component and of the drivers at power-on
PowerOn ==
    /\ s_entries = DebStateZero.s_entries
    /\ s_count = 0
    /\ timers = DebStateZero.timers
    /\ isr_handlers = DebStateZero.isr_handlers
    /\ isr_service = FALSE
    /\ gpio_cfg = DebStateZero.gpio_cfg
    /\ ret = NoCall
    /\ level = [p \in Pins |-> 1]
    /\ cmdq = <<>>
    /\ gpio_event_queue = FALSE
    /\ queue = <<>>
    /\ drop_count = 0
    /\ last = NoStep
    /\ phase = 0
    /\ sinceEdge = [p \in Pins |-> 0]
    /\ credit = [p \in Pins |-> 0]

InitReg ==
    /\ PowerOn
    /\ StartupNotModelled("caller", <<"Init">>)

\* GPIO driver: the service is installed once; a further call is refused
gpio_install_isr_service(installed, install_ok) ==
    IF installed THEN "ESP_ERR_INVALID_STATE"
    ELSE IF install_ok THEN "ESP_OK" ELSE "ESP_ERR_NO_MEM"

\* an init that hands the driver's result to its caller, as the comment in
\* the public header describes it
debounce_init_as_documented(err) == err

\* an init that accepts nothing but ESP_OK from the driver
debounce_init_strict(err) == IF err = "ESP_OK" THEN "ESP_OK" ELSE "ESP_FAIL"

\* debounce_init: what it returns for the result err of
\* gpio_install_isr_service(0); "already installed" is accepted
debounce_init(err) ==
    IF err # "ESP_OK" /\ err # "ESP_ERR_INVALID_STATE" THEN err ELSE "ESP_OK"

DebounceInit ==
    \E install_ok \in BOOLEAN :
        LET err == gpio_install_isr_service(isr_service, install_ok)
        IN  /\ isr_service' = (isr_service \/ install_ok)
            /\ ret' = [op |-> "init", pin |-> 0, code |-> debounce_init(err)]
            /\ UNCHANGED <<s_entries, s_count, timers, isr_handlers, gpio_cfg, rtVars, appVars>>

DebounceRegisterPin ==
    \E config \in Configs, gpio_ok \in BOOLEAN, heap_ok \in BOOLEAN :
        LET r == debounce_register_pin(DebState, config,
                                       [gpio_ok |-> gpio_ok, heap_ok |-> heap_ok])
        IN  /\ s_entries' = r.s_entries
            /\ s_count' = r.s_count
            /\ timers' = r.timers
            /\ isr_handlers' = r.isr_handlers
            /\ gpio_cfg' = r.gpio_cfg
            /\ ret' = [op |-> "register", pin |-> config.pin, code |-> r.ret]
            /\ UNCHANGED <<isr_service, rtVars, appVars>>

\* debounce_register_pin(NULL)
DebounceRegisterNull ==
    /\ ret' = [op |-> "register", pin |-> 0, code |-> "ESP_ERR_INVALID_ARG"]
    /\ UNCHANGED <<s_entries, s_count, timers, isr_handlers, isr_service, gpio_cfg, rtVars, appVars>>

NextReg == DebounceInit \/ DebounceRegisterPin \/ DebounceRegisterNull

SpecReg == InitReg /\ [][NextReg]_vars

(***************************************************************************)
(* Claims about registration                                               *)
(***************************************************************************)
Registered(pin) == \E e \in 1 .. s_count : s_entries[e].config.pin = pin

\* slot e holds one registered config and a live timer that refers back to e
SlotLive(e) ==
    /\ s_entries[e].config \in Configs
    /\ s_entries[e].tmr # NULL
    /\ timers[s_entries[e].tmr].alive
    /\ timers[s_entries[e].tmr].id = e

\* C34: after any sequence of debounce_register_pin calls, s_count is between
\* 0 and MAX_DEBOUNCE_PINS and every slot below it holds a registered config
\* with a live timer whose ID is that slot; s_count counts the calls that
\* returned ESP_OK: such a call adds one to it and fills the new slot with its
\* config, every other call leaves s_count and the slots in use as they were.
C34_TableConsistent ==
    /\ [](/\ 0 <= s_count /\ s_count <= MAX_DEBOUNCE_PINS
          /\ \A e \in 1 .. s_count : SlotLive(e))
    /\ [][/\ \A e \in 1 .. s_count : s_entries'[e] = s_entries[e]
          /\ IF ret'.op = "register" /\ ret'.code = "ESP_OK"
             THEN /\ s_count' = s_count + 1
                  /\ s_entries'[s_count'].config.pin = ret'.pin
             ELSE s_count' = s_count]_vars

\* the table is full of successful registrations of both pins and a further
\* call has been refused
C34_Witness ==
    /\ s_count = MAX_DEBOUNCE_PINS
    /\ ret.op = "register" /\ ret.code = "ESP_ERR_NO_MEM"
    /\ \E d, e \in 1 .. s_count : s_entries[d].config.pin # s_entries[e].config.pin
    /\ \A e \in 1 .. s_count : SlotLive(e)

C19_FailureReleasesTimer ==
    [][/\ (ret'.op = "register" /\ ret'.code = "ESP_ERR_INVALID_STATE") =>
            /\ s_entries'[s_count + 1].config.pin = ret'.pin
            /\ \A h \in Handles : ~timers[h].alive => ~timers'[h].alive
            /\ timers' = timers
            /\ s_count' = s_count
            /\ isr_handlers' = isr_handlers
            /\ \A p \in Pins : isr_handlers'[p] # s_count + 1
       /\ (ret'.op = "register" /\ ret'.code = "ESP_OK") =>
            /\ s_count' = s_count + 1
            /\ s_entries'[s_count + 1].config.pin = ret'.pin
            /\ isr_handlers'[ret'.pin] = s_count + 1
            /\ timers'[s_entries'[s_count + 1].tmr].alive]_vars

\* the slot after the last entry holds what a failed registration left
C19_Witness ==
    /\ ret.op = "register" /\ ret.code = "ESP_ERR_INVALID_STATE"
    /\ s_count = 0
    /\ s_entries[1].config.pin = ret.pin
    /\ s_entries[1].tmr # NULL /\ ~timers[s_entries[1].tmr].alive

\* ticks needed to cover ms milliseconds
TicksCovering(ms) == (ms * TickRateHz + 999) \div 1000

\* C27: the cached window of every registered entry is at least one tick
\* and, counted in tick periods, is not shorter than the debounce_time_us of
\* its configuration (compared on its whole milliseconds).
C27_WindowNotShorter ==
    \A e \in 1 .. s_count :
       /\ s_entries[e].debounce_ticks >= 1
       /\ s_entries[e].debounce_ticks
             >= TicksCovering(s_entries[e].config.debounce_time_us \div 1000)

\* C7: a debounce_register_pin call for a pin that already has an entry
\* returns an error, adds no second entry and leaves the timers and the ISR
\* binding of the original registration as they were.
C7_DuplicateRejected ==
    [][(ret'.op = "register" /\ ret'.pin \in Pins /\ Registered(ret'.pin))
         => /\ ret'.code # "ESP_OK"
            /\ UNCHANGED <<s_entries, s_count, timers, isr_handlers>>]_vars

\* C8: a debounce_register_pin call made while the table holds
\* MAX_DEBOUNCE_PINS entries returns ESP_ERR_NO_MEM and changes neither the
\* GPIO configuration, the timers, the ISR bindings, the entries nor the count.
C8_FullTableNoEffect ==
    [][(s_count = MAX_DEBOUNCE_PINS /\ ret'.op = "register" /\ ret'.pin \in Pins)
         => /\ ret'.code = "ESP_ERR_NO_MEM"
            /\ UNCHANGED <<s_entries, s_count, timers, isr_handlers, gpio_cfg>>]_vars

C8_Witness ==
    /\ s_count = MAX_DEBOUNCE_PINS
    /\ ret.op = "register" /\ ret.pin \in Pins
    /\ ret.code = "ESP_ERR_NO_MEM"

(***************************************************************************)
(* Run time: edges, the timer service task, the callback, the consumer     *)
(***************************************************************************)
\* length of one clock step in microseconds
UnitUs == 1000000 \div (TickRateHz * UnitsPerTick)

\* clock steps after which an edge is no longer within the window of pin p
WindowUnits(us) == (us + UnitUs - 1) \div UnitUs

CfgOf(p) == CHOOSE c \in Configs : c.pin = p

\* the GPIO matrix raises the interrupt the pin was configured for
IntrMatches(intr_type, newlevel) ==
    \/ intr_type = "ANYEDGE"
    \/ intr_type = "POSEDGE" /\ newlevel = 1
    \/ intr_type = "NEGEDGE" /\ newlevel = 0

\* a post that makes room by discarding the oldest request
xTimerChangePeriod_overwrite(q, tmr, ticks) ==
    IF Len(q) < TimerQueueLen
    THEN Append(q, [tmr |-> tmr, period |-> ticks])
    ELSE Append(Tail(q), [tmr |-> tmr, period |-> ticks])

\* FreeRTOS: the request is posted to the timer command queue without
\* blocking; it is lost when that queue is full
xTimerChangePeriodFromISR(q, tmr, ticks) ==
    IF Len(q) < TimerQueueLen
    THEN Append(q, [tmr |-> tmr, period |-> ticks])
    ELSE q

\* a handler that re-arms the timer of the first slot whatever its argument
gpio_isr_handler_slot0(e, q) ==
    IF e = NULL THEN q
    ELSE xTimerChangePeriodFromISR(q, s_entries[1].tmr, s_entries[1].debounce_ticks)

gpio_isr_handler(e, q) ==
    IF e = NULL THEN q
    ELSE xTimerChangePeriodFromISR(q, s_entries[e].tmr, s_entries[e].debounce_ticks)

\* xQueueSend with a zero block time that overwrites the oldest item
xQueueSend_overwrite(q, evt) ==
    IF Len(q) < QueueCapacity
    THEN [ok |-> TRUE, q |-> Append(q, evt)]
    ELSE [ok |-> TRUE, q |-> Append(Tail(q), evt)]

\* xQueueSendToFront with a zero block time: the newest item is received first
xQueueSendToFront(q, evt) ==
    IF Len(q) < QueueCapacity
    THEN [ok |-> TRUE, q |-> <<evt>> \o q]
    ELSE [ok |-> FALSE, q |-> q]

\* xQueueSend(gpio_event_queue, &evt, 0)
xQueueSend(q, evt) ==
    IF Len(q) < QueueCapacity
    THEN [ok |-> TRUE, q |-> Append(q, evt)]
    ELSE [ok |-> FALSE, q |-> q]

\* the callback of the esp_timer revision: every expiry enqueues the level
debounce_timer_callback_rev2(e, lv, qh, q) ==
    IF e = NULL THEN [queue |-> q, result |-> "noentry"]
    ELSE
      LET cfg == s_entries[e].config
          evt == [pin |-> cfg.pin, level |-> lv[cfg.pin], topic |-> cfg.mqtt_topic]
      IN  IF qh
          THEN LET r == xQueueSend(q, evt)
               IN  [queue |-> r.q, result |-> IF r.ok THEN "sent" ELSE "full"]
          ELSE [queue |-> q, result |-> "null"]

\* debounce_timer_cb: e is the timer ID, lv the pin levels, qh whether
\* gpio_event_queue is non-NULL, q its contents
debounce_timer_cb(e, lv, qh, q) ==
    IF e = NULL THEN [queue |-> q, result |-> "noentry"]
    ELSE
      LET cfg   == s_entries[e].config
          lvl   == lv[cfg.pin]
      IN  IF lvl # (IF cfg.report_level # 0 THEN 1 ELSE 0)
          THEN [queue |-> q, result |-> "filtered"]
          ELSE
            LET evt == [pin |-> cfg.pin, level |-> lvl, topic |-> cfg.mqtt_topic]
            IN  IF qh
                THEN LET r == xQueueSend(q, evt)
                     IN  [queue |-> r.q, result |-> IF r.ok THEN "sent" ELSE "full"]
                ELSE [queue |-> q, result |-> "null"]

\* main.c pin_monitor_init with every call succeeding
AfterPinMonitorInit ==
    LET ok  == [gpio_ok |-> TRUE, heap_ok |-> TRUE]
        st0 == [DebStateZero EXCEPT !.isr_service = TRUE]
        st1 == debounce_register_pin(st0, Pin4Cfg, ok)
    IN  debounce_register_pin(st1, Pin5Cfg, ok)

InitDebounce ==
    /\ s_entries = AfterPinMonitorInit.s_entries
    /\ s_count = AfterPinMonitorInit.s_count
    /\ timers = AfterPinMonitorInit.timers
    /\ isr_handlers = AfterPinMonitorInit.isr_handlers
    /\ isr_service = AfterPinMonitorInit.isr_service
    /\ gpio_cfg = AfterPinMonitorInit.gpio_cfg
    /\ ret = [op |-> "register", pin |-> Pin5Cfg.pin, code |-> AfterPinMonitorInit.ret]
    /\ level \in [Pins -> {0, 1}]
    /\ cmdq = <<>>
    /\ gpio_event_queue \in BOOLEAN
    /\ queue = <<>>
    /\ drop_count = 0
    /\ last = NoStep
    /\ phase = 0
    /\ sinceEdge = [p \in Pins |-> WindowUnits(CfgOf(p).debounce_time_us)]
    /\ credit = [p \in Pins |-> 0]
    /\ StartupNotModelled("running", <<"Init", "Connecting", "Connected">>)

\* an edge within the debounce window of the previous edge continues its burst
InBurst(p) == sinceEdge[p] * UnitUs < CfgOf(p).debounce_time_us

\* the pin changes level; the ISR bound to it runs.  With acct the bursts
\* are counted: sinceEdge and credit are kept, and a new burst waits while
\* MaxCredit bursts are ahead of their Events.
GpioEdge(p, acct) ==
    LET e     == isr_handlers[p]
        fires == e # NULL /\ IntrMatches(gpio_cfg[p].intr_type, 1 - level[p])
    IN  /\ (acct /\ ~InBurst(p)) => credit[p] < MaxCredit
        /\ level' = [level EXCEPT ![p] = 1 - level[p]]
        /\ cmdq' = IF fires THEN gpio_isr_handler(e, cmdq) ELSE cmdq
        /\ sinceEdge' = IF acct THEN [sinceEdge EXCEPT ![p] = 0] ELSE sinceEdge
        /\ credit' = IF ~acct \/ InBurst(p) THEN credit
                     ELSE [credit EXCEPT ![p] = credit[p] + 1]
        /\ last' = NoStep
        /\ UNCHANGED <<debVars, gpio_event_queue, queue, drop_count, phase, appVars>>

\* time passes; at the end of a tick period the tick interrupt counts
AdvanceTime(acct) ==
    /\ phase' = (phase + 1) % UnitsPerTick
    /\ timers' = IF phase' # 0 THEN timers
                 ELSE [h \in Handles |->
                         IF timers[h].active /\ timers[h].rem > 0
                         THEN [timers[h] EXCEPT !.rem = timers[h].rem - 1]
                         ELSE timers[h]]
    /\ sinceEdge' = IF ~acct THEN sinceEdge
                     ELSE [p \in Pins |->
                             Min(sinceEdge[p] + 1,
                                 WindowUnits(CfgOf(p).debounce_time_us))]
    /\ last' = NoStep
    /\ UNCHANGED <<s_entries, s_count, isr_handlers, isr_service, gpio_cfg, ret,
                   level, cmdq, gpio_event_queue, queue, drop_count, credit, appVars>>

\* timer service task: a change-period command (re)starts the timer
TimerTaskProcessCommand ==
    /\ cmdq # <<>>
    /\ LET c == Head(cmdq)
       IN  timers' = [timers EXCEPT ![c.tmr] =
                        [@ EXCEPT !.active = TRUE, !.period = c.period,
                                  !.rem = c.period]]
    /\ cmdq' = Tail(cmdq)
    /\ last' = NoStep
    /\ UNCHANGED <<s_entries, s_count, isr_handlers, isr_service, gpio_cfg, ret,
                   level, gpio_event_queue, queue, drop_count, phase, sinceEdge,
                   credit, appVars>>

\* timer service task: an expired one-shot timer goes dormant and its
\* callback runs
TimerExpire(h, acct) ==
    /\ timers[h].alive /\ timers[h].active /\ timers[h].rem = 0
    /\ LET e == timers[h].id
           p == s_entries[e].config.pin
           r == debounce_timer_cb(e, level, gpio_event_queue, queue)
       IN  /\ queue' = r.queue
           /\ last' = [op |-> "timer_cb", pin |-> p, level |-> level[p],
                       result |-> r.result]
           /\ credit' = IF acct /\ r.result = "sent"
                        THEN [credit EXCEPT ![p] = Max(credit[p] - 1, 0 - 1)]
                        ELSE credit
    /\ timers' = [timers EXCEPT ![h].active = FALSE]
    /\ UNCHANGED <<s_entries, s_count, isr_handlers, isr_service, gpio_cfg, ret,
                   level, cmdq, gpio_event_queue, drop_count, phase, sinceEdge,
                   appVars>>

\* main.c: mqtt_client after mqtt_app_start.  esp_mqtt_client_start(NULL)
\* fails and ESP_ERROR_CHECK then aborts the boot, so the handle is non-NULL
\* whenever pin_monitor_init has run
mqtt_client == TRUE

\* the text snprintf renders for an Event, as the pair it is made of
Msg(evt) == <<evt.pin, IF evt.level # 0 THEN "HIGH" ELSE "LOW">>

\* a consumer that publishes every Event under the fallback topic
gpio_task_fallback_topic(evt, client) ==
    IF client THEN <<[topic |-> "/pinMonitor/event", msg |-> Msg(evt)]>> ELSE <<>>

\* main.c gpio_task, one iteration: the esp_mqtt_client_publish calls made
\* for the received Event
gpio_task(evt, client) ==
    LET topic == IF evt.topic # "NULL" THEN evt.topic ELSE "/pinMonitor/event"
    IN  IF client THEN <<[topic |-> topic, msg |-> Msg(evt)]>> ELSE <<>>

\* main.c gpio_task: receive one Event and publish it.  The result of
\* esp_mqtt_client_publish (pub_ok) is not looked at and the loop goes on
GpioTask ==
    /\ gpio_event_queue
    /\ queue # <<>>
    /\ \E pub_ok \in BOOLEAN :
         LET evt == Head(queue)
         IN  last' = [op |-> "publish", pin |-> evt.pin, level |-> evt.level,
                      result |-> evt.topic, calls |-> gpio_task(evt, mqtt_client),
                      ok |-> pub_ok]
    /\ queue' = Tail(queue)
    /\ UNCHANGED <<debVars, level, cmdq, gpio_event_queue, drop_count, phase,
                   sinceEdge, credit, appVars>>

NextDebounce ==
    \/ \E p \in Pins : GpioEdge(p, FALSE)
    \/ AdvanceTime(FALSE)
    \/ TimerTaskProcessCommand
    \/ \E h \in Handles : TimerExpire(h, FALSE)
    \/ GpioTask

SpecDebounce == InitDebounce /\ [][NextDebounce]_vars

\* the same behaviours with the bursts of each pin counted
NextBurst ==
    \/ \E p \in Pins : GpioEdge(p, TRUE)
    \/ AdvanceTime(TRUE)
    \/ TimerTaskProcessCommand
    \/ \E h \in Handles : TimerExpire(h, TRUE)
    \/ GpioTask

SpecBurst == InitDebounce /\ [][NextBurst]_vars

(***************************************************************************)
(* Claims about the run time                                               *)
(***************************************************************************)
\* the step runs the callback of timer h: an expired one-shot goes dormant
CallbackRan(h) == timers[h].active /\ ~timers'[h].active

\* the level the callback of timer h samples differs from / equals the
\* report_level of its channel
SampledOther(h) ==
    /\ timers[h].id # NULL
    /\ LET cfg == s_entries[timers[h].id].config
       IN  level[cfg.pin] # (IF cfg.report_level # 0 THEN 1 ELSE 0)

SampledReport(h) ==
    /\ timers[h].id # NULL
    /\ LET cfg == s_entries[timers[h].id].config
       IN  level[cfg.pin] = (IF cfg.report_level # 0 THEN 1 ELSE 0)

\* C1: the Events enqueued for a pin never outnumber its bursts, a burst
\* being a maximal run of edges each within one debounce window
\* (debounce_time_us) of the previous one: at most one Event per burst.
C1_AtMostOneEventPerBurst == \A p \in Pins : credit[p] >= 0

\* C2: for either report_level, a callback that samples a level different
\* from the report_level of its channel enqueues no Event.
C2_OtherLevelNoEvent ==
    [][\A h \in Handles : (CallbackRan(h) /\ SampledOther(h)) => queue' = queue]_vars

C2_Witness ==
    /\ last.op = "timer_cb" /\ last.result = "filtered"
    /\ last.level # CfgOf(last.pin).report_level
    /\ gpio_event_queue /\ Len(queue) < QueueCapacity

\* C9: a callback that has an Event to send while the queue holds its full
\* capacity does not wait: the step completes, the new Event is discarded and
\* the queued Events keep their content and order.
C9_FullQueueDropNewest ==
    [][\A h \in Handles :
          (CallbackRan(h) /\ SampledReport(h) /\ gpio_event_queue
             /\ Len(queue) = QueueCapacity)
          => /\ queue' = queue
             /\ last'.op = "timer_cb" /\ last'.result = "full"]_vars

C9_Witness ==
    /\ last.op = "timer_cb" /\ last.result = "full"
    /\ gpio_event_queue /\ Len(queue) = QueueCapacity
    /\ \E i \in 1 .. Len(queue) : queue[i].pin # last.pin

\* C10: every Event dropped because the queue is full adds exactly one to the
\* drop counter.
C10_DropCounted ==
    [][\A h \in Handles :
          (CallbackRan(h) /\ SampledReport(h) /\ gpio_event_queue
             /\ Len(queue) = QueueCapacity)
          => drop_count' = drop_count + 1]_vars

\* the Event debounce_timer_cb builds for pin p sampled at level lv
EventOf(p, lv) == [pin |-> p, level |-> lv, topic |-> CfgOf(p).mqtt_topic]

\* C22: the consumer receives the Events in the order the timer callbacks
\* enqueued them, that is the order in which the windows expired: a callback
\* that sends puts its Event behind every queued one, the consumer takes the
\* oldest queued Event, and no other step touches the queue.
C22_DeliveredInExpiryOrder ==
    [][/\ (last'.op = "timer_cb" /\ last'.result = "sent")
            => queue' = Append(queue, EventOf(last'.pin, last'.level))
       /\ (last'.op = "timer_cb" /\ last'.result # "sent") => queue' = queue
       /\ last'.op = "publish"
            => /\ queue # <<>>
               /\ Head(queue) = [pin |-> last'.pin, level |-> last'.level,
                                 topic |-> last'.result]
               /\ queue' = Tail(queue)
       /\ last'.op \notin {"timer_cb", "publish"} => queue' = queue]_vars

\* the Event of pin 4 has been received while the window of pin 5, whose
\* edge came first, is still running
C22_Witness ==
    /\ last.op = "publish" /\ last.pin = 4
    /\ sinceEdge[5] > sinceEdge[4]
    /\ sinceEdge[5] < WindowUnits(CfgOf(5).debounce_time_us)
    /\ \E h \in Handles :
          /\ timers[h].alive /\ timers[h].active /\ timers[h].rem > 0
          /\ s_entries[timers[h].id].config.pin = 5

\* C29: a callback enqueues an Event for a pin only when that pin saw no
\* edge during the debounce window (debounce_time_us) that ends at the
\* sample, whatever the order in which the timer service runs the re-arm
\* requests of the ISR and the expiries.
C29_StableForFullWindow ==
    [][(last'.op = "timer_cb" /\ last'.result = "sent") => ~InBurst(last'.pin)]_vars

\* the timer of the channel of pin p
TimerOf(p) == s_entries[isr_handlers[p]].tmr

\* the timer of pin p has expired and its callback has not yet finished
CallbackInFlight(p) ==
    /\ isr_handlers[p] # NULL
    /\ timers[TimerOf(p)].active /\ timers[TimerOf(p)].rem = 0

\* C30: when an edge interrupt arrives for a pin whose timer has expired and
\* whose callback has not finished, the re-arm is not lost: after the ISR a
\* request for that timer waits in the timer command queue, so that a further
\* expiry follows the edge.
C30_RearmNotLost ==
    [][\A p \in Pins :
          (CallbackInFlight(p) /\ level'[p] # level[p]
             /\ IntrMatches(gpio_cfg[p].intr_type, level'[p]))
          => \E i \in 1 .. Len(cmdq') : cmdq'[i].tmr = TimerOf(p)]_vars

\* the step is an edge on pin p that raises its interrupt
EdgeInterrupt(p) ==
    /\ level'[p] # level[p]
    /\ isr_handlers[p] # NULL
    /\ IntrMatches(gpio_cfg[p].intr_type, level'[p])

\* C31: when the re-arm cannot be queued (the timer command queue is full)
\* the ISR step completes and changes nothing: the queued requests, the
\* entries and the timers, with any firing already pending, are as before;
\* an edge that finds room queues the re-arm of its own timer with the
\* cached period, whatever happened to earlier edges.
C31_FailedRearmDropsEdge ==
    [][\A p \in Pins :
          EdgeInterrupt(p) =>
             /\ UNCHANGED <<s_entries, s_count, timers, queue>>
             /\ IF Len(cmdq) = TimerQueueLen
                THEN cmdq' = cmdq
                ELSE cmdq' = Append(cmdq,
                                    [tmr |-> TimerOf(p),
                                     period |-> s_entries[isr_handlers[p]].debounce_ticks])]_vars

\* an edge on pin 4 was dropped: the queue is full of requests for the other
\* timer and the firing pending for pin 4 still counts down from before
C31_Witness ==
    /\ sinceEdge[4] = 0
    /\ Len(cmdq) = TimerQueueLen
    /\ \A i \in 1 .. Len(cmdq) : cmdq[i].tmr # TimerOf(4)
    /\ timers[TimerOf(4)].active
    /\ timers[TimerOf(4)].rem < timers[TimerOf(4)].period

\* C33: an edge interrupt on a pin queues at most one re-arm, for the timer
\* of that pin, and changes no entry and no timer; the timer service task
\* executing a re-arm changes the named timer only; an Event enqueued by the
\* callback of the timer of pin p carries the pin id and the topic of p.
C33_ChannelsIndependent ==
    [][/\ \A p \in Pins :
            EdgeInterrupt(p) =>
               /\ UNCHANGED <<s_entries, timers>>
               /\ \/ cmdq' = cmdq
                  \/ /\ Len(cmdq') = Len(cmdq) + 1
                     /\ SubSeq(cmdq', 1, Len(cmdq)) = cmdq
                     /\ cmdq'[Len(cmdq')].tmr = TimerOf(p)
       /\ (cmdq # <<>> /\ cmdq' = Tail(cmdq) /\ timers' # timers) =>
             /\ s_entries' = s_entries
             /\ \A h \in Handles : h # Head(cmdq).tmr => timers'[h] = timers[h]
       /\ \A p \in Pins :
            (CallbackRan(TimerOf(p)) /\ queue' # queue) =>
               /\ queue' = Append(queue, EventOf(p, level[p]))
               /\ s_entries' = s_entries
               /\ \A h \in Handles : h # TimerOf(p) => timers'[h] = timers[h]]_vars

\* pin 5 has just produced its Event while the window of pin 4 is running
C33_Witness ==
    /\ last.op = "timer_cb" /\ last.result = "sent" /\ last.pin = 5
    /\ queue # <<>> /\ queue[Len(queue)].pin = 5
    /\ queue[Len(queue)].topic = Pin5Cfg.mqtt_topic
    /\ timers[TimerOf(4)].active /\ timers[TimerOf(4)].rem > 0

\* the consumer task is blocked in xQueueReceive and is scheduled when an
\* Event is queued
SpecConsumer == SpecDebounce /\ WF_vars(GpioTask)

\* the one esp_mqtt_client_publish call that forwards evt
Forwarded(evt) == <<[topic |-> evt.topic, msg |-> Msg(evt)]>>

MaxStepRegs == 3

\* the statements of debounce_register_pin after the timer was created, with
\* the interrupt bound before the entry is filled
RegisterOrder_isr_first ==
    <<"isr_add", "fill_config", "fill_tmr", "fill_ticks", "set_id", "count">>

\* the statements of debounce_register_pin after the timer was created
\* (steps 4 and 5 and s_count++), in program order
RegisterOrder ==
    <<"fill_config", "fill_tmr", "fill_ticks", "set_id", "isr_add", "count">>

\* the statement that follows stmt
After(stmt) ==
    LET i == CHOOSE k \in 1 .. Len(RegisterOrder) : RegisterOrder[k] = stmt
    IN  IF i = Len(RegisterOrder) THEN "idle" ELSE RegisterOrder[i + 1]

InitRegSteps ==
    /\ PowerOn
    /\ StartupNotModelled("caller", <<"Init">>)

\* the call, the capacity test, step 1 (gpio_config) and step 2 (ticks)
RegCall ==
    /\ reg.pc = "idle"
    /\ s_count < MaxStepRegs
    /\ \E config \in Configs, gpio_ok \in BOOLEAN :
         IF s_count >= MAX_DEBOUNCE_PINS \/ ~gpio_ok
         THEN /\ ret' = [op |-> "register", pin |-> config.pin,
                         code |-> IF s_count >= MAX_DEBOUNCE_PINS
                                  THEN "ESP_ERR_NO_MEM" ELSE "ESP_ERR_INVALID_ARG"]
              /\ UNCHANGED <<gpio_cfg, reg>>
         ELSE /\ gpio_cfg' = [gpio_cfg EXCEPT ![config.pin] =
                                [configured |-> TRUE, intr_type |-> config.intr_type,
                                 pull_up |-> config.pull_up,
                                 pull_down |-> config.pull_down]]
              /\ reg' = [pc |-> "timer", config |-> config, tmr |-> NULL,
                         ticks |-> DebounceTicks(config.debounce_time_us)]
              /\ ret' = ret
    /\ UNCHANGED <<s_entries, s_count, timers, isr_handlers, isr_service, rtVars,
                   bootVars, subVars, mgrVars, errlog, infolog, srvVars,
                   prov_failed>>

\* step 3: xTimerCreate
RegTimerCreate ==
    /\ reg.pc = "timer"
    /\ \E heap_ok \in BOOLEAN :
         LET tmr == xTimerCreate(timers, heap_ok)
         IN  IF tmr = NULL
             THEN /\ ret' = [op |-> "register", pin |-> reg.config.pin,
                             code |-> "ESP_ERR_NO_MEM"]
                  /\ reg' = NoReg
                  /\ timers' = timers
             ELSE /\ timers' = [timers EXCEPT ![tmr] =
                                  [alive |-> TRUE, id |-> NULL, active |-> FALSE,
                                   rem |-> 0, period |-> reg.ticks]]
                  /\ reg' = [reg EXCEPT !.tmr = tmr, !.pc = RegisterOrder[1]]
                  /\ ret' = ret
    /\ UNCHANGED <<s_entries, s_count, isr_handlers, isr_service, gpio_cfg, rtVars,
                   bootVars, subVars, mgrVars, errlog, infolog, srvVars,
                   prov_failed>>

\* step 4: e->config = *config; e->tmr = tmr; e->debounce_ticks = ticks;
\* vTimerSetTimerID(tmr, e), one statement at a time
RegFill ==
    /\ reg.pc \in {"fill_config", "fill_tmr", "fill_ticks", "set_id"}
    /\ LET e == s_count + 1
       IN  /\ s_entries' =
                 IF reg.pc = "fill_config"
                 THEN [s_entries EXCEPT ![e].config = reg.config]
                 ELSE IF reg.pc = "fill_tmr"
                 THEN [s_entries EXCEPT ![e].tmr = reg.tmr]
                 ELSE IF reg.pc = "fill_ticks"
                 THEN [s_entries EXCEPT ![e].debounce_ticks = reg.ticks]
                 ELSE s_entries
           /\ timers' = IF reg.pc = "set_id"
                        THEN [timers EXCEPT ![reg.tmr].id = e]
                        ELSE timers
    /\ reg' = [reg EXCEPT !.pc = After(reg.pc)]
    /\ UNCHANGED <<s_count, isr_handlers, isr_service, gpio_cfg, ret, rtVars,
                   bootVars, subVars, mgrVars, errlog, infolog, srvVars,
                   prov_failed>>

\* step 5: gpio_isr_handler_add, and the release of the timer when it fails
RegIsrAdd ==
    /\ reg.pc = "isr_add"
    /\ IF ~isr_service
       THEN /\ timers' = xTimerDelete(timers, reg.tmr)
            /\ ret' = [op |-> "register", pin |-> reg.config.pin,
                       code |-> "ESP_ERR_INVALID_STATE"]
            /\ reg' = NoReg
            /\ isr_handlers' = isr_handlers
       ELSE /\ isr_handlers' = [isr_handlers EXCEPT ![reg.config.pin] = s_count + 1]
            /\ reg' = [reg EXCEPT !.pc = After(reg.pc)]
            /\ UNCHANGED <<timers, ret>>
    /\ UNCHANGED <<s_entries, s_count, isr_service, gpio_cfg, rtVars,
                   bootVars, subVars, mgrVars, errlog, infolog, srvVars,
                   prov_failed>>

\* s_count++ and return ESP_OK
RegCount ==
    /\ reg.pc = "count"
    /\ s_count' = s_count + 1
    /\ ret' = [op |-> "register", pin |-> reg.config.pin, code |-> "ESP_OK"]
    /\ reg' = [reg EXCEPT !.pc = After(reg.pc)]
    /\ UNCHANGED <<s_entries, timers, isr_handlers, isr_service, gpio_cfg, rtVars,
                   bootVars, subVars, mgrVars, errlog, infolog, srvVars,
                   prov_failed>>

\* debounce_init, called between two registrations
RegInit ==
    /\ reg.pc = "idle"
    /\ DebounceInit

\* an interrupt of a bound pin: gpio_isr_handler runs with the argument of
\* the binding, reads e->tmr and e->debounce_ticks and posts the request
IsrFires ==
    \E p \in Pins :
        LET e == isr_handlers[p]
        IN  /\ e # NULL
            /\ cmdq' = gpio_isr_handler(e, cmdq)
            /\ last' = [op |-> "isr", pin |-> p, level |-> level[p],
                        result |-> <<s_entries[e].tmr, s_entries[e].debounce_ticks>>]
            /\ UNCHANGED <<debVars, level, gpio_event_queue, queue, drop_count, phase,
                           sinceEdge, credit, appVars>>

NextRegSteps ==
    \/ RegCall
    \/ RegTimerCreate
    \/ RegFill
    \/ RegIsrAdd
    \/ RegCount
    \/ RegInit
    \/ IsrFires
    \/ TimerTaskProcessCommand

SpecRegSteps == InitRegSteps /\ [][NextRegSteps]_vars

\* the entry a binding of pin p points at is fully constructed
EntryComplete(p) ==
    LET e == isr_handlers[p]
    IN  /\ s_entries[e].config = CfgOf(p)
        /\ s_entries[e].tmr # NULL
        /\ timers[s_entries[e].tmr].alive
        /\ timers[s_entries[e].tmr].id = e
        /\ s_entries[e].debounce_ticks = DebounceTicks(CfgOf(p).debounce_time_us)
        /\ s_entries[e].debounce_ticks >= 1

\* C18: at every point of a registration, a pin that has an ISR binding has
\* a fully constructed entry behind it (config, live timer, window ticks and
\* the timer's back-reference), so every request an ISR posts names a live
\* timer and a period of at least one tick.
C18_IsrBoundLast ==
    /\ \A p \in Pins : isr_handlers[p] # NULL => EntryComplete(p)
    /\ \A i \in 1 .. Len(cmdq) :
          /\ cmdq[i].tmr # NULL /\ timers[cmdq[i].tmr].alive
          /\ cmdq[i].period >= 1
    /\ last.op = "isr" =>
          /\ last.result[1] # NULL /\ timers[last.result[1]].alive
          /\ last.result[2] >= 1

\* an interrupt of pin 4 arrived while the registration of pin 5 was between
\* creating its timer and binding its ISR
C18_Witness ==
    /\ last.op = "isr" /\ last.pin = 4
    /\ reg.pc \in {"fill_config", "fill_tmr", "fill_ticks", "set_id", "isr_add"}
    /\ reg.config.pin = 5
    /\ cmdq # <<>>

(***************************************************************************)
(* Boot: app_main, wifi_provisioning_start, wifi_init_sta_ext              *)
(***************************************************************************)
\* wifi_provisioning.c: #define MAX_RETRY 5
MAX_RETRY == 5
\* cap on the disconnect events handled while the startup task waits
MaxReconnects == 1
\* further invocations of wifi_provisioning_start by one caller
MaxStarts == 2

Call(op, arg) == [op |-> op, arg |-> arg]

CountOp(log, op) == Cardinality({i \in 1 .. Len(log) : log[i].op = op})

\* vTaskDelay(pdMS_TO_TICKS(ms)): the time the task sleeps, in ms
DelayMs(ms) == (pdMS_TO_TICKS(ms) * 1000) \div TickRateHz

nvs_open(store, ns) ==
    IF store[ns].exists THEN "ESP_OK" ELSE "ESP_ERR_NVS_NOT_FOUND"

nvs_get_str(store, ns, key, size) ==
    LET v == store[ns].kv[key]
    IN  IF v = Absent
        THEN [err |-> "ESP_ERR_NVS_NOT_FOUND", val |-> <<>>]
        ELSE IF Len(v) + 1 > size
        THEN [err |-> "ESP_ERR_NVS_INVALID_LENGTH", val |-> <<>>]
        ELSE [err |-> "ESP_OK", val |-> v]

\* a load that is content with the identity alone
load_credentials_ssid_only(store) ==
    IF nvs_open(store, "wifi_store") # "ESP_OK"
    THEN [err |-> nvs_open(store, "wifi_store"), ssid |-> <<>>, pass |-> <<>>]
    ELSE
      LET s == nvs_get_str(store, "wifi_store", "ssid", 32)
      IN  [err |-> s.err, ssid |-> s.val, pass |-> <<>>]

\* the load of the earlier revision: the secret is read under the key "pass"
load_credentials_rev0(store) ==
    IF nvs_open(store, "wifi_store") # "ESP_OK"
    THEN [err |-> nvs_open(store, "wifi_store"), ssid |-> <<>>, pass |-> <<>>]
    ELSE
      LET s == nvs_get_str(store, "wifi_store", "ssid", 32)
          p == nvs_get_str(store, "wifi_store", "pass", 64)
      IN  IF s.err # "ESP_OK"
          THEN [err |-> s.err, ssid |-> <<>>, pass |-> <<>>]
          ELSE [err |-> p.err, ssid |-> s.val, pass |-> p.val]

\* wifi_provisioning.c load_credentials_nvs
load_credentials_nvs(store) ==
    IF nvs_open(store, "wifi_store") # "ESP_OK"
    THEN [err |-> nvs_open(store, "wifi_store"), ssid |-> <<>>, pass |-> <<>>]
    ELSE
      LET s == nvs_get_str(store, "wifi_store", "ssid", 32)
          p == nvs_get_str(store, "wifi_store", "password", 64)
      IN  IF s.err # "ESP_OK"
          THEN [err |-> s.err, ssid |-> <<>>, pass |-> <<>>]
          ELSE [err |-> p.err, ssid |-> s.val, pass |-> p.val]

\* an app_main without the gate: the station path is always taken
creds_valid_ungated(store) == TRUE

\* main.c app_main: creds_valid
creds_valid(store) ==
    /\ nvs_open(store, "wifi_store") = "ESP_OK"
    /\ LET e1 == nvs_get_str(store, "wifi_store", "ssid", 32)
           e2 == nvs_get_str(store, "wifi_store", "password", 64)
       IN  e1.err = "ESP_OK" /\ e2.err = "ESP_OK" /\ Len(e1.val) > 0

\* a loop that gives up one poll early
RetryBudgetLeft_short(rc) == rc < MAX_RETRY - 1

\* wifi_provisioning_start: while (retry_count < MAX_RETRY)
RetryBudgetLeft(rc) == rc < MAX_RETRY

\* the calls of a sequence that are made when call number fail fails
\* (all of them when fail = 0)
Made(calls, fail) == SubSeq(calls, 1, IF fail = 0 THEN Len(calls) ELSE fail)

\* what the flash may hold at boot
BootStores ==
    {NvsErased} \cup
    {[NvsErased EXCEPT !["wifi_store"] =
        [exists |-> TRUE,
         kv |-> [k \in NvsKeys |->
                   IF k = "ssid" THEN s ELSE IF k = "password" THEN p ELSE Absent]]] :
       s \in {Absent, <<>>, <<104>>}, p \in {Absent, <<112>>}}

InitBoot ==
    /\ PowerOn
    /\ nvs \in BootStores
    /\ erase_on_boot \in BOOLEAN
    /\ assoc_at \in 0 .. (MAX_RETRY + 1)
    /\ pc = "app_main"
    /\ retry_count = 0
    /\ s_wifi_started = FALSE
    /\ prov_ret = "none"
    /\ reconnects = 0
    /\ trace = <<"Init">>
    /\ bootlog = <<>>
    /\ form = [ssid |-> <<>>, pass |-> <<>>, mpass |-> <<>>]
    /\ http = "none"
    /\ persist_ok = TRUE
    /\ ExtInit
    /\ ServerOff

\* the station attempt of the earlier revision: esp_wifi_start on every call
StaCalls_rev0(started) ==
    <<Call("esp_wifi_set_mode", 1), Call("esp_wifi_set_config_sta", 0),
      Call("esp_wifi_start", 0), Call("esp_wifi_connect", 0)>>

\* the driver calls of the station attempt of wifi_provisioning_start
StaCalls(started) ==
    <<Call("esp_wifi_set_mode", 1), Call("esp_wifi_set_config_sta", 0)>>
    \o (IF started THEN <<>> ELSE <<Call("esp_wifi_start", 0)>>)
    \o <<Call("esp_wifi_connect", 0)>>

\* the first revision of web_server.c: httpd_start is called on every start,
\* its result is not looked at
web_server_start_rev0(server, running, httpd_ok) ==
    [s_server |-> IF httpd_ok THEN 1 ELSE server,
     httpd    |-> IF httpd_ok THEN running + 1 ELSE running,
     ret      |-> "ESP_OK"]

\* web_server.c web_server_start; httpd_ok is the outcome of httpd_start
web_server_start(server, running, httpd_ok) ==
    IF server # NULL
    THEN [s_server |-> server, httpd |-> running, ret |-> "ESP_OK"]
    ELSE IF httpd_ok
    THEN [s_server |-> 1, httpd |-> running + 1, ret |-> "ESP_OK"]
    ELSE [s_server |-> NULL, httpd |-> running, ret |-> "ESP_FAIL"]

\* web_server.c web_server_stop
web_server_stop(server, running) ==
    IF server # NULL
    THEN [s_server |-> NULL, httpd |-> running - 1]
    ELSE [s_server |-> server, httpd |-> running]

\* the driver calls of start_softap_provisioning
SoftapCalls(started) ==
    <<Call("esp_netif_create_default_wifi_ap", 0), Call("esp_read_mac", 0),
      Call("esp_wifi_set_mode", 3), Call("esp_wifi_set_config_ap", 0)>>
    \o (IF started THEN <<>> ELSE <<Call("esp_wifi_start", 0)>>)
    \o <<Call("web_server_start", 0)>>

\* start_softap_provisioning: the calls wrapped in ESP_ERROR_CHECK abort the
\* firmware when they fail; the others make the function return the error
ErrorChecked == {"esp_read_mac", "web_server_start"}

StartMade(calls, fail) ==
    \E i \in 1 .. Len(calls) :
        calls[i].op = "esp_wifi_start" /\ (fail = 0 \/ i < fail)

\* the earlier revision: the loop starts from the count the last call left
retry_count_kept(rc) == rc

\* wifi_provisioning_start: retry_count = 0 before the poll loop
retry_count_reset(rc) == 0

\* app_main up to the decision between provisioning and the station path
AppMain ==
    /\ pc = "app_main"
    /\ \E sys_ok \in BOOLEAN :
         IF ~sys_ok
         THEN /\ pc' = "aborted"
              /\ bootlog' = bootlog
         ELSE IF erase_on_boot \/ ~creds_valid(nvs)
         THEN /\ pc' = "prov_start"
              /\ bootlog' = Append(bootlog, Call("wifi_provisioning_init", 0))
         ELSE /\ pc' = "sta_init"
              /\ bootlog' = bootlog
    /\ UNCHANGED <<debVars, rtVars, subVars, extVars, nvs, erase_on_boot, assoc_at, retry_count,
                   s_wifi_started, prov_ret, reconnects, trace>>

\* wifi_provisioning_start up to the poll loop
WifiProvisioningStart ==
    /\ pc = "prov_start"
    /\ LET c     == load_credentials_nvs(nvs)
           calls == StaCalls(s_wifi_started)
       IN  IF c.err = "ESP_OK"
           THEN \E fail \in 0 .. Len(calls) :
                  /\ bootlog' = bootlog \o Made(calls, fail)
                  /\ s_wifi_started' = (s_wifi_started \/ StartMade(calls, fail))
                  /\ IF fail = 0
                     THEN /\ retry_count' = retry_count_reset(retry_count)
                          /\ IF RetryBudgetLeft(retry_count')
                             THEN /\ pc' = "poll"
                                  /\ trace' = Append(trace, "Connecting")
                             ELSE /\ pc' = "softap"
                                  /\ trace' = trace \o <<"Connecting", "Failed">>
                          /\ prov_ret' = prov_ret
                     ELSE /\ prov_ret' = "ESP_FAIL"
                          /\ pc' = "aborted"
                          /\ UNCHANGED <<retry_count, trace>>
                  /\ prov_failed' = IF fail = 0 THEN prov_failed ELSE calls[fail].op
           ELSE /\ pc' = "softap"
                /\ UNCHANGED <<bootlog, s_wifi_started, retry_count, trace, prov_ret,
                               prov_failed>>
    /\ UNCHANGED <<debVars, rtVars, subVars, mgrVars, errlog, infolog, srvVars, reg, nvs,
                   erase_on_boot,
                   assoc_at, reconnects>>

\* one turn of the poll loop: sleep, then ask the driver for the AP record
WifiProvisioningPoll ==
    /\ pc = "poll"
    /\ LET n       == CountOp(bootlog, "esp_wifi_sta_get_ap_info") + 1
           success == assoc_at # 0 /\ n >= assoc_at
       IN  /\ bootlog' = bootlog \o <<Call("vTaskDelay", DelayMs(2000)),
                                      Call("esp_wifi_sta_get_ap_info",
                                           IF success THEN 1 ELSE 0)>>
           /\ IF success
              THEN /\ prov_ret' = "ESP_OK"
                   /\ pc' = "returned"
                   /\ trace' = Append(trace, "Connected")
                   /\ retry_count' = retry_count
              ELSE /\ retry_count' = retry_count + 1
                   /\ prov_ret' = prov_ret
                   /\ IF RetryBudgetLeft(retry_count + 1)
                      THEN pc' = "poll" /\ trace' = trace
                      ELSE pc' = "softap" /\ trace' = Append(trace, "Failed")
    /\ UNCHANGED <<debVars, rtVars, subVars, extVars, nvs, erase_on_boot, assoc_at, s_wifi_started,
                   reconnects>>

\* a start operation that reports the exhausted retry budget to its caller
wifi_provisioning_start_timeout(rc) ==
    IF rc >= MAX_RETRY THEN "ESP_ERR_TIMEOUT" ELSE "ESP_OK"

\* wifi_provisioning_start after start_softap_provisioning succeeded:
\* return ESP_OK, whether the retry loop ran (rc polls failed) or not
wifi_provisioning_start_ret(rc) == "ESP_OK"

\* start_softap_provisioning and the return of wifi_provisioning_start
StartSoftapProvisioning ==
    /\ pc = "softap"
    /\ LET calls == SoftapCalls(s_wifi_started)
       IN  \E fail \in {0} \cup (2 .. Len(calls)) :
             /\ (fail = Len(calls)) => s_server = NULL
             /\ LET r == web_server_start(s_server, httpd, fail = 0)
                IN  IF fail \in {0, Len(calls)}
                    THEN s_server' = r.s_server /\ httpd' = r.httpd
                    ELSE UNCHANGED srvVars
             /\ bootlog' = bootlog \o Made(calls, fail)
             /\ s_wifi_started' = (s_wifi_started \/ StartMade(calls, fail))
             /\ IF fail = 0
                THEN /\ prov_ret' = wifi_provisioning_start_ret(retry_count)
                     /\ pc' = "returned"
                     /\ trace' = Append(trace, "Provisioning")
                ELSE /\ prov_ret' = IF calls[fail].op \in ErrorChecked
                                     THEN prov_ret ELSE "ESP_FAIL"
                     /\ pc' = "aborted"
                     /\ trace' = trace
             /\ prov_failed' = IF fail = 0 THEN prov_failed ELSE calls[fail].op
    /\ UNCHANGED <<debVars, rtVars, subVars, mgrVars, errlog, infolog, reg, nvs,
                   erase_on_boot, assoc_at, retry_count, reconnects>>

\* a caller invokes wifi_provisioning_start again after it has returned, with
\* ESP_OK or with the error of a call that is not wrapped in ESP_ERROR_CHECK
WifiProvisioningStartCall ==
    /\ \/ pc = "returned"
       \/ pc = "aborted" /\ prov_ret = "ESP_FAIL" /\ prov_failed \notin ErrorChecked
    /\ CountOp(bootlog, "wifi_provisioning_start") < MaxStarts
    /\ pc' = "prov_start"
    /\ prov_ret' = "none"
    /\ bootlog' = Append(bootlog, Call("wifi_provisioning_start", 0))
    /\ UNCHANGED <<debVars, rtVars, subVars, extVars, nvs, erase_on_boot, assoc_at,
                   retry_count, s_wifi_started, reconnects, trace>>

\* main.c wifi_init_sta_ext up to the wait for the connected bit
WifiInitStaExt ==
    /\ pc = "sta_init"
    /\ LET c     == load_credentials_nvs(nvs)
           setup == <<Call("esp_netif_create_default_wifi_sta", 0),
                      Call("esp_wifi_init", 0)>>
           calls == <<Call("esp_wifi_set_mode", 1), Call("esp_wifi_set_config_sta", 0),
                      Call("esp_wifi_start", 0)>>
       IN  IF c.err # "ESP_OK"
           THEN /\ bootlog' = bootlog \o setup
                /\ pc' = "sta_done"
                /\ trace' = trace
           ELSE \E fail \in 0 .. Len(calls) :
                  /\ bootlog' = bootlog \o setup \o Made(calls, fail)
                  /\ IF fail = 0
                     THEN pc' = "sta_wait" /\ trace' = Append(trace, "Connecting")
                     ELSE pc' = "aborted" /\ trace' = trace
    /\ UNCHANGED <<debVars, rtVars, subVars, extVars, nvs, erase_on_boot, assoc_at, retry_count,
                   s_wifi_started, prov_ret, reconnects>>

\* wifi_event_handler, IP_EVENT_STA_GOT_IP: the bit is set and
\* xEventGroupWaitBits(..., portMAX_DELAY) returns
StaGotIp ==
    /\ pc = "sta_wait"
    /\ assoc_at # 0
    /\ pc' = "sta_done"
    /\ trace' = Append(trace, "Connected")
    /\ UNCHANGED <<debVars, rtVars, subVars, extVars, nvs, erase_on_boot, assoc_at, retry_count,
                   s_wifi_started, prov_ret, reconnects, bootlog>>

\* wifi_event_handler, WIFI_EVENT_STA_DISCONNECTED: connect again
StaDisconnected ==
    /\ pc = "sta_wait"
    /\ reconnects < MaxReconnects
    /\ reconnects' = reconnects + 1
    /\ bootlog' = Append(bootlog, Call("esp_wifi_connect", 0))
    /\ UNCHANGED <<debVars, rtVars, subVars, extVars, nvs, erase_on_boot, assoc_at, pc, retry_count,
                   s_wifi_started, prov_ret, trace>>

\* app_main after wifi_init_sta_ext: mqtt_app_start and pin_monitor_init
AppMainMonitor ==
    /\ pc = "sta_done"
    /\ \E all_ok \in BOOLEAN, queue_ok \in BOOLEAN :
         IF all_ok
         THEN /\ pc' = "running"
              /\ bootlog' = bootlog \o <<Call("mqtt_app_start", 0),
                                         Call("pin_monitor_init", 0)>>
              /\ s_entries' = AfterPinMonitorInit.s_entries
              /\ s_count' = AfterPinMonitorInit.s_count
              /\ timers' = AfterPinMonitorInit.timers
              /\ isr_handlers' = AfterPinMonitorInit.isr_handlers
              /\ isr_service' = AfterPinMonitorInit.isr_service
              /\ gpio_cfg' = AfterPinMonitorInit.gpio_cfg
              /\ ret' = [op |-> "register", pin |-> Pin5Cfg.pin,
                         code |-> AfterPinMonitorInit.ret]
              /\ gpio_event_queue' = queue_ok
         ELSE /\ pc' = "aborted"
              /\ bootlog' = Append(bootlog, Call("mqtt_app_start", 0))
              /\ UNCHANGED <<debVars, gpio_event_queue>>
    /\ UNCHANGED <<level, cmdq, queue, drop_count, last, phase, sinceEdge, credit,
                   subVars, extVars, nvs, erase_on_boot, assoc_at, retry_count, s_wifi_started,
                   prov_ret, reconnects, trace>>

\* the connectivity state the device is in
Cur(tr) == tr[Len(tr)]

\* a handler that gives up when the link is lost
StaLinkLost_giveup ==
    /\ pc \in {"sta_done", "running"}
    /\ Cur(trace) = "Connected"
    /\ reconnects < MaxReconnects
    /\ reconnects' = reconnects + 1
    /\ trace' = Append(trace, "Failed")
    /\ UNCHANGED <<debVars, rtVars, subVars, extVars, nvs, erase_on_boot, assoc_at, pc,
                   retry_count, s_wifi_started, prov_ret, bootlog>>

\* wifi_event_handler, WIFI_EVENT_STA_DISCONNECTED after the station was
\* connected: the handler stays registered and connects again
StaLinkLost ==
    /\ pc \in {"sta_done", "running"}
    /\ Cur(trace) = "Connected"
    /\ reconnects < MaxReconnects
    /\ reconnects' = reconnects + 1
    /\ bootlog' = Append(bootlog, Call("esp_wifi_connect", 0))
    /\ trace' = Append(trace, "Connecting")
    /\ UNCHANGED <<debVars, rtVars, subVars, extVars, nvs, erase_on_boot, assoc_at, pc,
                   retry_count, s_wifi_started, prov_ret>>

\* a Connected notification that starts MQTT and the pin monitoring, as the
\* observer on_wifi_state_change of the earlier main does
StaLinkBack_notify ==
    /\ pc \in {"sta_done", "running"}
    /\ Cur(trace) = "Connecting"
    /\ trace' = Append(trace, "Connected")
    /\ bootlog' = bootlog \o <<Call("mqtt_app_start", 0), Call("pin_monitor_init", 0)>>
    /\ LET ok  == [gpio_ok |-> TRUE, heap_ok |-> TRUE]
           st0 == [DebState EXCEPT !.isr_service = TRUE]
           st1 == debounce_register_pin(st0, Pin4Cfg, ok)
           st2 == debounce_register_pin(st1, Pin5Cfg, ok)
       IN  /\ s_entries' = st2.s_entries
           /\ s_count' = st2.s_count
           /\ timers' = st2.timers
           /\ isr_handlers' = st2.isr_handlers
           /\ isr_service' = TRUE
           /\ gpio_cfg' = st2.gpio_cfg
           /\ ret' = [op |-> "register", pin |-> Pin5Cfg.pin, code |-> st2.ret]
    /\ gpio_event_queue' = TRUE
    /\ UNCHANGED <<level, cmdq, queue, drop_count, last, phase, sinceEdge, credit,
                   subVars, extVars, nvs, erase_on_boot, assoc_at, pc,
                   retry_count, s_wifi_started, prov_ret, reconnects>>

\* wifi_event_handler, IP_EVENT_STA_GOT_IP after a reconnect: the bit is
\* already set, the station is connected again
StaLinkBack ==
    /\ pc \in {"sta_done", "running"}
    /\ Cur(trace) = "Connecting"
    /\ trace' = Append(trace, "Connected")
    /\ UNCHANGED <<debVars, rtVars, subVars, extVars, nvs, erase_on_boot, assoc_at, pc,
                   retry_count, s_wifi_started, prov_ret, reconnects, bootlog>>

(***************************************************************************)
(* wifi_manager.c.  Nothing in the tree calls wifi_manager_start; the call *)
(* is made by whoever wants to observe the connectivity state.             *)
(***************************************************************************)
\* cap on the notifications recorded
MaxNotified == 2

\* typedef enum wifi_state_t
WifiStates ==
    {"WIFI_STATE_INIT", "WIFI_STATE_CONNECTING", "WIFI_STATE_CONNECTED",
     "WIFI_STATE_FAILED", "WIFI_STATE_PROVISIONING",
     "WIFI_STATE_SAVING_CREDENTIALS", "WIFI_STATE_REBOOTING"}

\* a set_state that calls the observer before it writes current_state
set_state_cb_first(new_state, cb, seen) ==
    [current_state |-> new_state,
     notified |-> IF cb THEN Append(seen, new_state) ELSE seen,
     in_cb |-> current_state]

\* set_state: current_state is written first, then the callback runs;
\* in_cb is the value of current_state while the callback runs
set_state(new_state, cb, seen) ==
    [current_state |-> new_state,
     notified |-> IF cb THEN Append(seen, new_state) ELSE seen,
     in_cb |-> new_state]

\* wifi_manager_get_state
wifi_manager_get_state(cur) == cur

\* wifi_manager_start(cb): state_cb = cb; set_state(WIFI_STATE_INIT)
WifiManagerStart ==
    /\ Len(notified) < MaxNotified
    /\ \E cb \in BOOLEAN :
         LET r == set_state("WIFI_STATE_INIT", cb, notified)
         IN  /\ state_cb' = cb
             /\ current_state' = r.current_state
             /\ notified' = r.notified
             /\ cb_seen' = IF cb THEN Append(cb_seen, wifi_manager_get_state(r.in_cb))
                            ELSE cb_seen
    /\ UNCHANGED <<debVars, rtVars, bootVars, subVars, errlog, infolog, srvVars,
                   prov_failed, reg>>

\* set_state(new_state) as the state machine of wifi_manager.c calls it.  In
\* the tree wifi_manager_start is its only caller (wifi_manager_run is empty);
\* here it is applied to every value of wifi_state_t.
SetState ==
    /\ Len(notified) < MaxNotified
    /\ \E new_state \in WifiStates :
         LET r == set_state(new_state, state_cb, notified)
         IN  /\ current_state' = r.current_state
             /\ notified' = r.notified
             /\ cb_seen' = IF state_cb
                            THEN Append(cb_seen, wifi_manager_get_state(r.in_cb))
                            ELSE cb_seen
    /\ UNCHANGED <<debVars, rtVars, bootVars, subVars, state_cb, errlog, infolog,
                   srvVars, prov_failed, reg>>

\* a task calls wifi_manager_get_state()
WifiManagerGetState ==
    /\ ret' = [op |-> "get_state", pin |-> 0,
               code |-> wifi_manager_get_state(current_state)]
    /\ UNCHANGED <<s_entries, s_count, timers, isr_handlers, isr_service, gpio_cfg,
                   rtVars, appVars>>

InitManager ==
    /\ PowerOn
    /\ StartupNotModelled("caller", <<"Init">>)

NextManager == WifiManagerStart \/ SetState \/ WifiManagerGetState

SpecManager == InitManager /\ [][NextManager]_vars

\* C39: wifi_manager_get_state returns the state most recently set and
\* changes nothing; while an observer is registered that state is the one of
\* the last notification; inside the callback for S the getter already
\* returns S; a set_state made with no observer registered updates the state
\* and notifies nobody.
C39_GetterAgrees ==
    /\ [](/\ state_cb => (notified # <<>> /\ notified[Len(notified)] = current_state)
          /\ cb_seen = notified)
    /\ [][/\ (ret' # ret /\ ret'.op = "get_state")
               => (ret'.code = current_state /\ UNCHANGED mgrVars)
          /\ (current_state' # current_state /\ ~state_cb')
               => UNCHANGED <<notified, cb_seen>>
          /\ notified' # notified
               => notified' = Append(notified, current_state')]_vars

\* with an observer registered the state was set to Connected; the callback
\* saw Connected and so does a later call of the getter
C39_Witness ==
    /\ state_cb
    /\ current_state = "WIFI_STATE_CONNECTED"
    /\ Len(notified) >= 2 /\ notified[Len(notified)] = "WIFI_STATE_CONNECTED"
    /\ cb_seen = notified
    /\ ret.op = "get_state" /\ ret.code = "WIFI_STATE_CONNECTED"

NextBoot ==
    \/ AppMain
    \/ WifiProvisioningStart
    \/ WifiProvisioningPoll
    \/ StartSoftapProvisioning
    \/ WifiInitStaExt
    \/ StaGotIp
    \/ StaDisconnected
    \/ StaLinkLost
    \/ StaLinkBack
    \/ AppMainMonitor
    \/ WifiManagerStart

SpecBoot == InitBoot /\ [][NextBoot]_vars

\* the startup task and the event task are scheduled whenever they can run
SpecBootLive == SpecBoot /\ WF_vars(NextBoot)

(***************************************************************************)
(* The provisioning module as a caller may use it: wifi_provisioning_init, *)
(* then wifi_provisioning_start any number of times                        *)
(***************************************************************************)
InitProv ==
    /\ PowerOn
    /\ nvs \in BootStores
    /\ erase_on_boot = FALSE
    /\ assoc_at \in 0 .. (2 * MAX_RETRY + 1)
    /\ pc = "prov_start"
    /\ retry_count = 0
    /\ s_wifi_started = FALSE
    /\ prov_ret = "none"
    /\ reconnects = 0
    /\ trace = <<"Init">>
    /\ bootlog = <<Call("wifi_provisioning_init", 0)>>
    /\ form = [ssid |-> <<>>, pass |-> <<>>, mpass |-> <<>>]
    /\ http = "none"
    /\ persist_ok = TRUE
    /\ ExtInit
    /\ ServerOff

NextProv ==
    \/ WifiProvisioningStart
    \/ WifiProvisioningPoll
    \/ StartSoftapProvisioning
    \/ WifiProvisioningStartCall

SpecProv == InitProv /\ [][NextProv]_vars

Starts(log) == CountOp(log, "esp_wifi_start")

\* the esp_wifi_start calls that failed: wifi_provisioning_start returned
\* right after them
FailedStarts ==
    Cardinality({i \in 1 .. Len(bootlog) :
                   /\ bootlog[i].op = "esp_wifi_start"
                   /\ IF i = Len(bootlog)
                      THEN pc = "aborted" /\ prov_failed = "esp_wifi_start"
                      ELSE bootlog[i + 1].op = "wifi_provisioning_start"})

\* C36: over any sequence of wifi_provisioning_start calls the driver is
\* started at most once: once an esp_wifi_start call has succeeded
\* (s_wifi_started) no step calls esp_wifi_start again, in the station
\* attempt, in the fallback to the access point or in a later invocation; the
\* only calls beyond the first are retries after an esp_wifi_start that failed.
C36_WifiStartedOnce ==
    /\ [](Starts(bootlog) - FailedStarts = IF s_wifi_started THEN 1 ELSE 0)
    /\ [][/\ s_wifi_started => Starts(bootlog') = Starts(bootlog)
          /\ Starts(bootlog') <= Starts(bootlog) + 1
          /\ s_wifi_started => s_wifi_started']_vars

\* the polls made since the last invocation of wifi_provisioning_start
PollsThisCall(log) ==
    LET marks == {i \in 1 .. Len(log) : log[i].op = "wifi_provisioning_start"}
        from  == IF marks = {} THEN 0 ELSE CHOOSE i \in marks : \A j \in marks : j <= i
    IN  Cardinality({i \in (from + 1) .. Len(log) :
                       log[i].op = "esp_wifi_sta_get_ap_info"})

\* C37: every invocation of wifi_provisioning_start that loads a credential
\* enters the poll loop with retry_count = 0, whatever an earlier invocation
\* left in it; in the loop retry_count is the number of polls this invocation
\* has made, at most MAX_RETRY = 5, and the invocation gives up exactly when
\* its own 5 polls have failed.
C37_FreshBudget ==
    /\ []((pc = "poll" => retry_count = PollsThisCall(bootlog))
          /\ PollsThisCall(bootlog) <= MAX_RETRY)
    /\ [][/\ (pc = "prov_start" /\ pc' \notin {"prov_start", "aborted"}
              /\ load_credentials_nvs(nvs).err = "ESP_OK")
               => (pc' = "poll" /\ retry_count' = 0)
          /\ (pc = "poll" /\ pc' = "softap")
               => PollsThisCall(bootlog') = MAX_RETRY]_vars

\* a second invocation has used its 5 polls after the first had used its own
C37_Witness ==
    /\ CountOp(bootlog, "wifi_provisioning_start") = 1
    /\ CountOp(bootlog, "esp_wifi_sta_get_ap_info") = 2 * MAX_RETRY
    /\ PollsThisCall(bootlog) = MAX_RETRY
    /\ pc = "softap" /\ retry_count = MAX_RETRY

\* a station attempt started the driver, fell back to the access point, and
\* a second invocation did the same, with one esp_wifi_start in all
C36_Witness ==
    /\ pc = "returned" /\ Cur(trace) = "Provisioning"
    /\ CountOp(bootlog, "wifi_provisioning_start") >= 1
    /\ CountOp(bootlog, "esp_wifi_connect") >= 2
    /\ CountOp(bootlog, "esp_wifi_set_config_ap") >= 2
    /\ Starts(bootlog) = 1 /\ s_wifi_started

(***************************************************************************)
(* Claims about the boot                                                   *)
(***************************************************************************)
WifiStore == nvs["wifi_store"]

\* both keys are stored and the identity is not empty
StoredValid ==
    /\ WifiStore.exists
    /\ WifiStore.kv["ssid"] # Absent /\ WifiStore.kv["ssid"] # <<>>
    /\ WifiStore.kv["password"] # Absent

\* the namespace or one of the two keys is missing
NoCredential ==
    \/ ~WifiStore.exists
    \/ WifiStore.kv["ssid"] = Absent
    \/ WifiStore.kv["password"] = Absent

Polls == CountOp(bootlog, "esp_wifi_sta_get_ap_info")

\* every association poll comes right after a sleep of 2000 ms
EachPollAfterDelay ==
    \A i \in 1 .. Len(bootlog) :
        bootlog[i].op = "esp_wifi_sta_get_ap_info"
        => i > 1 /\ bootlog[i - 1] = Call("vTaskDelay", 2000)

FallbackAfterFivePolls ==
    /\ trace = <<"Init", "Connecting", "Failed", "Provisioning">>
    /\ Polls = 5
    /\ EachPollAfterDelay
    /\ CountOp(bootlog, "esp_wifi_set_config_ap") = 1
    /\ bootlog[Len(bootlog)] = Call("web_server_start", 0)

\* C3: a boot with a valid stored credential on a network that never
\* associates leads, unless a mandatory driver call fails, to the state
\* sequence Init, Connecting, Failed, Provisioning after exactly 5 polls, each
\* after a 2000 ms sleep, with the access point and the configuration server
\* started last.
C3_FallbackAfterFivePolls ==
    (StoredValid /\ assoc_at = 0) ~> (pc = "aborted" \/ FallbackAfterFivePolls)

\* C4: with no credential stored the device goes from Init straight to
\* Provisioning: no station configuration, no connect and no poll is ever
\* made, and wifi_provisioning_start returns with the access point started.
C4_NoCredentialStraightToProvisioning ==
    NoCredential =>
      /\ trace \in {<<"Init">>, <<"Init", "Provisioning">>}
      /\ CountOp(bootlog, "esp_wifi_set_config_sta") = 0
      /\ CountOp(bootlog, "esp_wifi_connect") = 0
      /\ Polls = 0
      /\ pc \in {"app_main", "prov_start", "softap", "returned", "aborted"}
      /\ pc = "returned" =>
           /\ trace = <<"Init", "Provisioning">>
           /\ prov_ret = "ESP_OK"
           /\ bootlog[Len(bootlog)] = Call("web_server_start", 0)

C4_Witness ==
    /\ WifiStore.exists /\ WifiStore.kv["ssid"] # Absent
    /\ WifiStore.kv["password"] = Absent
    /\ pc = "returned"
    /\ trace = <<"Init", "Provisioning">>

\* C5: when the k-th poll (k in 1..5) is the first that succeeds, the loop
\* makes exactly k polls, wifi_provisioning_start returns ESP_OK in state
\* Connected after Init, Connecting, and neither the access point nor the
\* configuration server is started.
C5_KthPollConnects ==
    \A k \in 1 .. MAX_RETRY :
        (assoc_at = k /\ Polls > 0) =>
          /\ Polls <= k
          /\ pc # "poll" =>
               /\ Polls = k
               /\ pc = "returned"
               /\ prov_ret = "ESP_OK"
               /\ trace = <<"Init", "Connecting", "Connected">>
               /\ CountOp(bootlog, "esp_wifi_set_config_ap") = 0
               /\ CountOp(bootlog, "web_server_start") = 0

C5_Witness ==
    /\ assoc_at = 3 /\ Polls = 3
    /\ pc = "returned" /\ prov_ret = "ESP_OK"
    /\ trace = <<"Init", "Connecting", "Connected">>

\* C13: a boot with a valid stored credential always gets out of Connecting:
\* unless a mandatory driver call fails, the startup task reaches Connected
\* or Provisioning after at most 5 polls, whatever the network does.
C13_BringUpTerminates ==
    StoredValid ~> (\/ pc = "aborted"
                    \/ /\ Cur(trace) \in {"Connected", "Provisioning"}
                       /\ Polls <= MAX_RETRY)

\* C14: when the retry budget is exhausted wifi_provisioning_start goes on to
\* Provisioning and, once the access point and the configuration server are
\* started, returns ESP_OK; it returns an error only when one of its
\* mandatory driver calls failed.
C14_ExhaustionIsNotAnError ==
    /\ (retry_count = MAX_RETRY /\ pc = "returned") =>
          /\ prov_ret = "ESP_OK"
          /\ Cur(trace) = "Provisioning"
          /\ CountOp(bootlog, "esp_wifi_set_config_ap") = 1
          /\ bootlog[Len(bootlog)] = Call("web_server_start", 0)
    /\ (retry_count = MAX_RETRY /\ prov_failed = "none") => prov_ret \in {"none", "ESP_OK"}
    /\ prov_ret \notin {"none", "ESP_OK"} => prov_failed # "none"

C14_Witness ==
    /\ retry_count = MAX_RETRY /\ pc = "returned" /\ prov_ret = "ESP_OK"
    /\ trace = <<"Init", "Connecting", "Failed", "Provisioning">>

\* a credential the code would use: both keys readable, the identity not empty
CredentialValid ==
    /\ load_credentials_nvs(nvs).err = "ESP_OK"
    /\ Len(load_credentials_nvs(nvs).ssid) > 0

\* C15: for every stored credential that is not valid (the namespace or a key
\* is missing, or the identity is empty) no station configuration, connect or
\* poll is made and the only state after Init is Provisioning.
C15_InvalidNeverConnects ==
    ~CredentialValid =>
      /\ trace \in {<<"Init">>, <<"Init", "Provisioning">>}
      /\ CountOp(bootlog, "esp_wifi_set_config_sta") = 0
      /\ CountOp(bootlog, "esp_wifi_connect") = 0
      /\ Polls = 0

(***************************************************************************)
(* The server lifecycle API of web_server.c, called at any moment of the   *)
(* boot by any caller                                                      *)
(***************************************************************************)
WebServerStart ==
    /\ \E httpd_ok \in BOOLEAN :
         LET r == web_server_start(s_server, httpd, httpd_ok)
         IN  /\ s_server' = r.s_server
             /\ httpd' = r.httpd
             /\ ret' = [op |-> "web_server_start", pin |-> 0, code |-> r.ret]
    /\ UNCHANGED <<s_entries, s_count, timers, isr_handlers, isr_service, gpio_cfg,
                   rtVars, bootVars, subVars, mgrVars, errlog, infolog, prov_failed,
                   reg>>

WebServerStop ==
    /\ LET r == web_server_stop(s_server, httpd)
       IN  /\ s_server' = r.s_server
           /\ httpd' = r.httpd
    /\ ret' = [op |-> "web_server_stop", pin |-> 0, code |-> "void"]
    /\ UNCHANGED <<s_entries, s_count, timers, isr_handlers, isr_service, gpio_cfg,
                   rtVars, bootVars, subVars, mgrVars, errlog, infolog, prov_failed,
                   reg>>

NextServer == NextBoot \/ WebServerStart \/ WebServerStop

SpecServer == InitBoot /\ [][NextServer]_vars

\* the step is a call of the named lifecycle function whose outcome differs
\* from that of the API call before it
Called(op) == ret'.op = op /\ ret' # ret

\* C26: the handle is non-NULL exactly when one server runs and never more
\* than one runs; a server is started only by a start that found the handle
\* NULL and stopped only by a stop that found it set; web_server_start on a
\* running server returns ESP_OK and starts nothing; a failed start leaves
\* the handle NULL; web_server_stop without a server changes nothing.
C26_LifecycleIdempotent ==
    /\ [](httpd \in {0, 1} /\ (s_server # NULL <=> httpd = 1))
    /\ [][/\ httpd' > httpd => (httpd' = httpd + 1 /\ s_server = NULL /\ s_server' # NULL)
          /\ httpd' < httpd => (httpd' = httpd - 1 /\ s_server # NULL /\ s_server' = NULL)
          /\ httpd' = httpd => s_server' = s_server
          /\ (Called("web_server_start") /\ s_server # NULL)
              => (ret'.code = "ESP_OK" /\ UNCHANGED srvVars)
          /\ (Called("web_server_start") /\ ret'.code # "ESP_OK")
              => (s_server' = NULL /\ UNCHANGED srvVars)
          /\ (Called("web_server_start") /\ s_server = NULL /\ ret'.code = "ESP_OK")
              => (s_server' # NULL /\ httpd' = 1)
          /\ (Called("web_server_stop") /\ s_server = NULL) => UNCHANGED srvVars
          /\ (Called("web_server_stop") /\ s_server # NULL)
              => (s_server' = NULL /\ httpd' = 0)]_vars

\* start_softap_provisioning found the server already running and returned
\* with that one server
C26_Witness ==
    /\ pc = "returned" /\ Cur(trace) = "Provisioning"
    /\ ret.op = "web_server_start" /\ ret.code = "ESP_OK"
    /\ s_server # NULL /\ httpd = 1

\* the connectivity state s has been reached in this boot
Reached(s) == \E i \in 1 .. Len(trace) : trace[i] = s

\* something of the interrupt layer exists: the ISR service, a binding, a
\* debounce timer, an entry, the event queue, or pin_monitor_init (which
\* creates the queue and the consumer task) was called
MonitorStarted ==
    \/ isr_service
    \/ s_count > 0
    \/ \E p \in Pins : isr_handlers[p] # NULL
    \/ \E h \in Handles : timers[h].alive
    \/ gpio_event_queue
    \/ CountOp(bootlog, "pin_monitor_init") > 0

MqttStarted == CountOp(bootlog, "mqtt_app_start") > 0

\* C32: whenever the ISR of some pin is bound, the event queue handle is
\* non-NULL, so no callback takes the branch that loses the Event for want of
\* a queue.
C32_QueueBeforeInterrupts ==
    (\E p \in Pins : isr_handlers[p] # NULL) => gpio_event_queue

\* the number of pin_monitor_init calls made
EngineStarts(log) == CountOp(log, "pin_monitor_init")

\* C38: within one boot pin_monitor_init (queue creation, consumer task
\* creation, registration of each pin) runs at most once: no pin has more
\* than one entry or more than one timer, and no step other than that one
\* call, in particular no disconnect, reconnect or notification, changes the
\* entries, the bindings, the timers, the ISR service or the queue handle.
C38_EngineStartedOnce ==
    /\ [](/\ EngineStarts(bootlog) <= 1
          /\ s_count <= Cardinality(Pins)
          /\ \A p \in Pins :
                Cardinality({e \in 1 .. s_count : s_entries[e].config.pin = p}) <= 1
          /\ Cardinality({h \in Handles : timers[h].alive}) <= Cardinality(Pins))
    /\ [][EngineStarts(bootlog') = EngineStarts(bootlog) =>
            UNCHANGED <<s_entries, s_count, timers, isr_handlers, isr_service,
                        gpio_event_queue>>]_vars

\* the engine was started, the link was lost afterwards and came back: there
\* is still one start and one entry per pin
C38_Witness ==
    /\ pc = "running" /\ Cur(trace) = "Connected"
    /\ Cardinality({i \in 1 .. Len(trace) : trace[i] = "Connected"}) >= 2
    /\ \E i, j \in 1 .. Len(bootlog) :
          /\ i < j
          /\ bootlog[i].op = "pin_monitor_init"
          /\ bootlog[j].op = "esp_wifi_connect"
    /\ EngineStarts(bootlog) = 1 /\ s_count = 2

\* C24: nothing of the interrupt layer exists before Connected was reached,
\* and a boot that entered Provisioning has started neither MQTT nor the pin
\* monitoring.
C24_MonitorOnlyAfterConnected ==
    /\ MonitorStarted => Reached("Connected")
    /\ Reached("Provisioning") => (~MonitorStarted /\ ~MqttStarted)

\* the pins are registered, after the station connected
C24_Witness ==
    /\ pc = "running" /\ Reached("Connected")
    /\ s_count = 2 /\ isr_service /\ MqttStarted
    /\ \A p \in Pins : isr_handlers[p] # NULL

(***************************************************************************)
(* Provisioning: the form, its encoding by the browser, the decoding and   *)
(* persistence by submit_post_handler.  Characters are byte values.        *)
(***************************************************************************)
\* longest tail tried after the padding of an identity
MaxSuffix == 2

K_ssid      == <<115, 115, 105, 100>>
K_pass      == <<112, 97, 115, 115>>
K_mqtt_uri  == <<109, 113, 116, 116, 95, 117, 114, 105>>
K_mqtt_user == <<109, 113, 116, 116, 95, 117, 115, 101, 114>>
K_mqtt_pass == <<109, 113, 116, 116, 95, 112, 97, 115, 115>>

\* "m:1", the broker address typed into the form
MqttUri == <<109, 58, 49>>

\* a C string ends at its first NUL
CStr(s) ==
    LET nuls == {i \in 1 .. Len(s) : s[i] = 0}
    IN  IF nuls = {} THEN s
        ELSE SubSeq(s, 1, (CHOOSE i \in nuls : \A j \in nuls : i <= j) - 1)

hex2nibble(c) ==
    IF c >= 48 /\ c <= 57 THEN c - 48
    ELSE IF c >= 65 /\ c <= 70 THEN c - 65 + 10
    ELSE IF c >= 97 /\ c <= 102 THEN c - 97 + 10
    ELSE 0 - 1

\* the pieces f[lo], ..., f[hi] in one sequence
RECURSIVE Concat(_, _, _)
Concat(f, lo, hi) ==
    IF lo > hi THEN <<>>
    ELSE IF lo = hi THEN f[lo]
    ELSE LET mid == (lo + hi) \div 2
         IN  Concat(f, lo, mid) \o Concat(f, mid + 1, hi)

\* s[i] is '%' followed by two hex digits
IsEscape(s, i) ==
    /\ i >= 1 /\ i + 2 <= Len(s)
    /\ s[i] = 37
    /\ hex2nibble(s[i + 1]) >= 0 /\ hex2nibble(s[i + 2]) >= 0

\* what the loop of url_decode_inplace writes when its read pointer passes
\* s[i].  The loop skips s[i] exactly when it is one of the two digits of an
\* escape; '%' is no hex digit, so every '%' is met by the loop as a
\* character of its own.
url_decode_at(s, i) ==
    IF s[i] = 37
    THEN IF i + 2 <= Len(s)
         THEN IF IsEscape(s, i)
              THEN <<hex2nibble(s[i + 1]) * 16 + hex2nibble(s[i + 2])>>
              ELSE <<>>
         ELSE <<37>>
    ELSE IF IsEscape(s, i - 1) \/ IsEscape(s, i - 2) THEN <<>>
    ELSE IF s[i] = 43 THEN <<32>>
    ELSE <<s[i]>>

url_decode_inplace(s) ==
    CStr(Concat([i \in 1 .. Len(s) |-> url_decode_at(s, i)], 1, Len(s)))

\* strstr: index of the first occurrence of key at or after from, 0 if none
StrStr(hay, key, from) ==
    LET hits == {i \in from .. (Len(hay) - Len(key) + 1) :
                    SubSeq(hay, i, i + Len(key) - 1) = key}
    IN  IF hits = {} THEN 0 ELSE CHOOSE i \in hits : \A j \in hits : i <= j

RECURSIVE form_get_from(_, _, _, _)
form_get_from(body, key, out_len, from) ==
    LET p    == StrStr(body, key, from)
        klen == Len(key)
    IN  IF p = 0 THEN [found |-> FALSE, out |-> <<>>]
        ELSE IF /\ (p = 1 \/ body[p - 1] = 38)
                /\ p + klen <= Len(body)
                /\ body[p + klen] = 61
        THEN LET start == p + klen + 1
                 stops == {i \in start .. Len(body) : body[i] = 38}
                 stop  == IF stops = {} THEN Len(body) + 1
                          ELSE CHOOSE i \in stops : \A j \in stops : i <= j
                 n     == Min(stop - start, out_len - 1)
             IN  [found |-> TRUE,
                  out |-> url_decode_inplace(SubSeq(body, start, start + n - 1))]
        ELSE form_get_from(body, key, out_len, p + klen)

form_get(body, key, out_len) ==
    IF out_len = 0 THEN [found |-> FALSE, out |-> <<>>]
    ELSE form_get_from(body, key, out_len, 1)

\* the browser: application/x-www-form-urlencoded
HexDigit(n) == IF n < 10 THEN 48 + n ELSE 55 + n

FormEncodeByte(c) ==
    IF \/ (c >= 48 /\ c <= 57) \/ (c >= 65 /\ c <= 90) \/ (c >= 97 /\ c <= 122)
       \/ c \in {42, 45, 46, 95}
    THEN <<c>>
    ELSE IF c = 32 THEN <<43>>
    ELSE <<37, HexDigit(c \div 16), HexDigit(c % 16)>>

FormEncode(s) == Concat([i \in 1 .. Len(s) |-> FormEncodeByte(s[i])], 1, Len(s))

FormBody(f) ==
    K_ssid \o <<61>> \o FormEncode(f.ssid) \o <<38>>
    \o K_pass \o <<61>> \o FormEncode(f.pass) \o <<38>>
    \o K_mqtt_uri \o <<61>> \o FormEncode(MqttUri) \o <<38>>
    \o K_mqtt_user \o <<61>> \o <<38>>
    \o K_mqtt_pass \o <<61>> \o FormEncode(f.mpass)

\* the values tried: a run of 'a' followed by a short tail over
\* 'a', space, '&' and '%'
Pad(k) == [i \in 1 .. k |-> 97]

Suffixes(n) == UNION {[1 .. m -> {97, 32, 38, 37}] : m \in 0 .. n}

Identities ==
    {v \in {Pad(k) \o x : k \in {0} \cup (28 .. 31), x \in Suffixes(MaxSuffix)} :
        Len(v) <= 31}

Secrets ==
    {v \in {Pad(k) \o x : k \in {0} \cup (61 .. 63), x \in Suffixes(1)} :
        Len(v) <= 63}

\* a store that already holds a credential
NvsProvisioned ==
    [NvsErased EXCEPT !["wifi_store"] =
        [exists |-> TRUE,
         kv |-> [k \in NvsKeys |->
                   IF k = "ssid" THEN <<104>>
                   ELSE IF k = "password" THEN <<112>> ELSE Absent]]]

\* the device is in Provisioning: wifi_provisioning_start has returned with
\* the access point and the configuration server started
InitSubmit ==
    /\ PowerOn
    /\ nvs \in {NvsErased, NvsProvisioned}
    /\ erase_on_boot = FALSE
    /\ assoc_at = 0
    /\ pc = "returned"
    /\ retry_count = 0
    /\ s_wifi_started = TRUE
    /\ prov_ret = "ESP_OK"
    /\ reconnects = 0
    /\ trace = <<"Init", "Provisioning">>
    /\ bootlog = <<Call("wifi_provisioning_init", 0)>> \o SoftapCalls(FALSE)
    /\ form \in [ssid : Identities, pass : Secrets, mpass : {<<>>}]
    /\ http = "none"
    /\ persist_ok = TRUE
    /\ ExtInit
    /\ ServerOn

\* the NVS call of submit_post_handler that fails, if any: nvs_open of either
\* namespace, nvs_set_str of either credential key, nvs_commit of wifi_store
NvsFailures == {"none", "wifi_open", "ssid", "password", "wifi_commit", "mqtt_open"}

\* submit_post_handler: ESP_LOGE is reached only from the else branches of
\* the two nvs_open calls; the results of nvs_set_str and nvs_commit are
\* discarded
submit_post_handler_loge(fail) ==
    IF fail \in {"wifi_open", "mqtt_open"} THEN <<fail>> ELSE <<>>

\* the handler of the earlier revision: the request body and the password
\* are logged
submit_post_handler_logi_rev1(body) ==
    <<body, form_get(body, K_ssid, 32).out, form_get(body, K_pass, 64).out>>

\* submit_post_handler: ESP_LOGI "Provision request: SSID='%s', MQTT URI='%s',
\* MQTT user='%s'", the user shown as (none) when empty
submit_post_handler_logi(body) ==
    LET user == form_get(body, K_mqtt_user, 64).out
    IN  <<form_get(body, K_ssid, 32).out, form_get(body, K_mqtt_uri, 128).out,
          IF user # <<>> THEN user ELSE <<40, 110, 111, 110, 101, 41>>>>

\* submit_post_handler up to the response
SubmitPost ==
    /\ pc = "returned"
    /\ s_server # NULL
    /\ trace[Len(trace)] = "Provisioning"
    /\ LET body == FormBody(form)
           ssid == form_get(body, K_ssid, 32).out
           pass == form_get(body, K_pass, 64).out
           uri  == form_get(body, K_mqtt_uri, 128).out
           user == form_get(body, K_mqtt_user, 64).out
           mpw  == form_get(body, K_mqtt_pass, 64).out
       IN  \E fail \in NvsFailures, durable \in BOOLEAN :
             /\ nvs' = [nvs EXCEPT
                  !["wifi_store"] =
                     IF fail = "wifi_open" \/ (fail = "wifi_commit" /\ ~durable) THEN @
                     ELSE [exists |-> TRUE,
                           kv |-> [@.kv EXCEPT
                                     !["ssid"] = IF fail = "ssid" THEN @ ELSE ssid,
                                     !["password"] =
                                        IF fail = "password" THEN @ ELSE pass]],
                  !["mqtt_store"] =
                     IF fail = "mqtt_open" THEN @
                     ELSE [exists |-> TRUE,
                           kv |-> [@.kv EXCEPT !["uri"] = uri, !["user"] = user,
                                               !["pass"] = mpw]]]
             /\ persist_ok' = (fail = "none")
             /\ errlog' = errlog \o submit_post_handler_loge(fail)
             /\ infolog' = Append(infolog, submit_post_handler_logi(body))
    /\ http' = "200"
    /\ pc' = "saved"
    /\ trace' = Append(trace, "SavingCredentials")
    /\ UNCHANGED <<debVars, rtVars, mgrVars, srvVars, prov_failed, reg, form,
                   erase_on_boot, assoc_at, retry_count,
                   s_wifi_started, prov_ret, reconnects, bootlog>>

\* a handler that restarts the device after refusing a request
SubmitEmpty_restart ==
    /\ pc = "returned"
    /\ s_server # NULL
    /\ trace[Len(trace)] = "Provisioning"
    /\ http' = "400"
    /\ pc' = "restart"
    /\ trace' = Append(trace, "Rebooting")
    /\ UNCHANGED <<debVars, rtVars, extVars, form, persist_ok, nvs, erase_on_boot,
                   assoc_at, retry_count, s_wifi_started, prov_ret, reconnects,
                   bootlog>>

\* submit_post_handler: a request without a body is refused
SubmitEmpty ==
    /\ pc = "returned"
    /\ s_server # NULL
    /\ trace[Len(trace)] = "Provisioning"
    /\ http' = "400"
    /\ UNCHANGED <<debVars, rtVars, bootVars, extVars, form, persist_ok>>

\* submit_post_handler: vTaskDelay(500 ms), esp_restart()
EspRestart ==
    /\ pc = "saved"
    /\ pc' = "restart"
    /\ trace' = Append(trace, "Rebooting")
    /\ UNCHANGED <<debVars, rtVars, subVars, extVars, nvs, erase_on_boot, assoc_at,
                   retry_count, s_wifi_started, prov_ret, reconnects, bootlog>>

NextSubmit == SubmitPost \/ SubmitEmpty \/ EspRestart

SpecSubmit == InitSubmit /\ [][NextSubmit]_vars

\* the empty value and the one-byte values 'a', space, '&' and '%', for the
\* identity and the two secrets of a submit
ShortValues == Suffixes(1)

InitSubmitLog ==
    /\ PowerOn
    /\ nvs \in {NvsErased, NvsProvisioned}
    /\ erase_on_boot = FALSE
    /\ assoc_at = 0
    /\ pc = "returned"
    /\ retry_count = 0
    /\ s_wifi_started = TRUE
    /\ prov_ret = "ESP_OK"
    /\ reconnects = 0
    /\ trace = <<"Init", "Provisioning">>
    /\ bootlog = <<Call("wifi_provisioning_init", 0)>> \o SoftapCalls(FALSE)
    /\ form \in [ssid : ShortValues, pass : ShortValues, mpass : ShortValues]
    /\ http = "none"
    /\ persist_ok = TRUE
    /\ ExtInit
    /\ ServerOn

\* the submits of every pair of secrets
SpecSubmitLog == InitSubmitLog /\ [][NextSubmit]_vars

\* C6: a submit made in Provisioning takes the device through
\* SavingCredentials to Rebooting, and when no NVS call failed the store then
\* holds, under wifi_store / ssid and password, exactly the identity (up to 31
\* bytes) and the secret (up to 63 bytes) the operator typed.
C6_SubmittedPairPersisted ==
    (pc = "restart" /\ persist_ok) =>
       /\ trace = <<"Init", "Provisioning", "SavingCredentials", "Rebooting">>
       /\ nvs["wifi_store"].exists
       /\ nvs["wifi_store"].kv["ssid"] = form.ssid
       /\ nvs["wifi_store"].kv["password"] = form.pass

\* C20: when an NVS call of the submit failed (the store could not be opened,
\* a write failed or the commit failed), the failure has been logged, the
\* response has been sent and the device goes on to restart.
C20_PersistFailureLogged ==
    (pc \in {"saved", "restart"} /\ ~persist_ok) =>
       /\ errlog # <<>>
       /\ http = "200"
       /\ Cur(trace) \in {"SavingCredentials", "Rebooting"}

\* the {identity, secret} pair held under wifi_store
StoredPair(store) ==
    <<store["wifi_store"].kv["ssid"], store["wifi_store"].kv["password"]>>

\* the pair submit_post_handler extracted from the request it was sent
SubmittedPair ==
    <<form_get(FormBody(form), K_ssid, 32).out,
      form_get(FormBody(form), K_pass, 64).out>>

\* C21: when the restart is triggered the persisted credential is either the
\* complete pair of the submit or the complete pair held before it, never the
\* identity of one with the secret of the other, whichever NVS call failed.
C21_SaveAtomic ==
    pc = "restart" =>
       \/ StoredPair(nvs) = SubmittedPair
       \/ StoredPair(nvs) \in {StoredPair(NvsErased), StoredPair(NvsProvisioned)}

\* C25: the lines submit_post_handler logged for a submit are the lines it
\* logs for every submit that differs from it only in the Wi-Fi password
\* and/or the MQTT password, and its error lines name only the NVS call that
\* failed.
C25_LogHidesSecrets ==
    pc \in {"saved", "restart"} =>
       /\ \A p \in ShortValues : \A mp \in ShortValues :
             infolog =
               <<submit_post_handler_logi(
                    FormBody([form EXCEPT !.pass = p, !.mpass = mp]))>>
       /\ \A i \in 1 .. Len(errlog) : errlog[i] \in NvsFailures

\* a submit with both secrets given has been logged
C25_Witness ==
    /\ pc = "saved"
    /\ form.pass # <<>> /\ form.mpass # <<>> /\ form.ssid # <<>>
    /\ Len(infolog) = 1 /\ infolog[1][1] = form.ssid

(***************************************************************************)
(* A submit, the restart it triggers and the boot that follows.  The store *)
(* survives the restart; everything held in RAM starts again from its      *)
(* initial value.  form, http and persist_ok keep the record of the last   *)
(* submit.                                                                 *)
(***************************************************************************)
\* the identities and secrets submitted: empty, one byte, the longest
\* accepted, and a value whose encoded form is longer than the buffer
RebootIdentities == {<<>>, <<97>>, Pad(31), Pad(30) \o <<38>>}
RebootSecrets    == {<<>>, <<112>>, Pad(63)}

InitReboot ==
    /\ PowerOn
    /\ nvs \in {NvsErased, NvsProvisioned}
    /\ erase_on_boot = FALSE
    /\ assoc_at = 0
    /\ pc = "returned"
    /\ retry_count = 0
    /\ s_wifi_started = TRUE
    /\ prov_ret = "ESP_OK"
    /\ reconnects = 0
    /\ trace = <<"Init", "Provisioning">>
    /\ bootlog = <<Call("wifi_provisioning_init", 0)>> \o SoftapCalls(FALSE)
    /\ form \in [ssid : RebootIdentities, pass : RebootSecrets, mpass : {<<>>}]
    /\ http = "none"
    /\ persist_ok = TRUE
    /\ ExtInit
    /\ ServerOn

\* esp_restart has reset the chip: app_main starts with the statics at their
\* initial values and the NVS partition as the last boot left it
Reboot ==
    /\ pc = "restart"
    /\ pc' = "app_main"
    /\ s_entries' = DebStateZero.s_entries
    /\ s_count' = 0
    /\ timers' = DebStateZero.timers
    /\ isr_handlers' = DebStateZero.isr_handlers
    /\ isr_service' = FALSE
    /\ gpio_cfg' = DebStateZero.gpio_cfg
    /\ ret' = NoCall
    /\ level' = [p \in Pins |-> 1]
    /\ cmdq' = <<>>
    /\ gpio_event_queue' = FALSE
    /\ queue' = <<>>
    /\ drop_count' = 0
    /\ last' = NoStep
    /\ phase' = 0
    /\ sinceEdge' = [p \in Pins |-> 0]
    /\ credit' = [p \in Pins |-> 0]
    /\ assoc_at' \in {0, 1}
    /\ retry_count' = 0
    /\ s_wifi_started' = FALSE
    /\ prov_ret' = "none"
    /\ reconnects' = 0
    /\ trace' = <<"Init">>
    /\ bootlog' = <<>>
    /\ current_state' = "WIFI_STATE_INIT"
    /\ state_cb' = FALSE
    /\ notified' = <<>>
    /\ cb_seen' = <<>>
    /\ errlog' = <<>>
    /\ infolog' = <<>>
    /\ prov_failed' = "none"
    /\ reg' = NoReg
    /\ s_server' = NULL
    /\ httpd' = 0
    /\ UNCHANGED <<nvs, erase_on_boot, form, http, persist_ok>>

NextReboot == NextSubmit \/ Reboot \/ NextBoot

\* the restarted chip runs app_main; the startup task and the event task are
\* scheduled whenever they can run
SpecReboot == InitReboot /\ [][NextReboot]_vars /\ WF_vars(Reboot \/ NextBoot)

\* the last submit stored a pair with a non-empty identity and no NVS call
\* of it failed
SavedNonEmpty ==
    /\ http = "200" /\ persist_ok
    /\ SubmittedPair[1] # <<>>

\* C35: a pair with a non-empty identity that submit_post_handler wrote with
\* every NVS call succeeding is what the boot-time gate and the load of
\* wifi_provisioning_start read back (namespace wifi_store, keys ssid and
\* password): the gate finds the credential valid and the load returns the
\* written identity and secret; the boot that follows the restart does not
\* enter the provisioning path and, unless a mandatory call fails, goes from
\* Init to Connecting.
C35_SaveLoadAgree ==
    /\ [](SavedNonEmpty =>
            /\ creds_valid(nvs)
            /\ load_credentials_nvs(nvs) =
                  [err |-> "ESP_OK", ssid |-> SubmittedPair[1],
                   pass |-> SubmittedPair[2]])
    /\ []((SavedNonEmpty /\ pc \notin {"saved", "restart"}) =>
            /\ pc \in {"app_main", "sta_init", "sta_wait", "sta_done", "running",
                       "aborted"}
            /\ trace[1] = "Init"
            /\ Len(trace) >= 2 => trace[2] = "Connecting")
    /\ ((SavedNonEmpty /\ pc = "restart")
          ~> (pc = "aborted" \/ (pc = "sta_wait" /\ Cur(trace) = "Connecting")))

\* the longest identity and secret were saved over an older credential and
\* the boot after the restart is in Connecting with them
C35_Witness ==
    /\ SavedNonEmpty
    /\ form.ssid = Pad(31) /\ form.pass = Pad(63)
    /\ StoredPair(nvs) = <<Pad(31), Pad(63)>>
    /\ pc = "sta_wait" /\ trace = <<"Init", "Connecting">>
    /\ CountOp(bootlog, "esp_wifi_start") = 1

(***************************************************************************)
(* One run of the device: the boot followed, when it ended in              *)
(* Provisioning, by the operator's submit                                  *)
(***************************************************************************)
NextLife == NextBoot \/ NextSubmit

SpecLife == InitBoot /\ [][NextLife]_vars

\* the path of the specification
StrictPath ==
    {<<"Init", "Connecting">>, <<"Connecting", "Connected">>,
     <<"Connecting", "Failed">>, <<"Failed", "Provisioning">>,
     <<"Provisioning", "SavingCredentials">>, <<"SavingCredentials", "Rebooting">>,
     <<"Connected", "Connecting">>}

\* the step changes the connectivity state by the one transition in path
Transition(path) ==
    /\ trace' = Append(trace, Cur(trace'))
    /\ <<Cur(trace), Cur(trace')>> \in path
    /\ (Cur(trace) = "Connected") =>
          /\ reconnects' = reconnects + 1
          /\ bootlog' = Append(bootlog, Call("esp_wifi_connect", 0))

\* C11 as stated: every change of the connectivity state is a transition of
\* the strict path Init -> Connecting -> {Connected | Failed}, Failed ->
\* Provisioning, Provisioning -> SavingCredentials -> Rebooting, Connected ->
\* Connecting on a disconnect.
C11_StrictPath == [][trace' # trace => Transition(StrictPath)]_vars

\* C11 amended: every change of the connectivity state is a transition of the
\* strict path or the direct transition Init -> Provisioning, which is taken
\* only when reading the stored credential fails; Connected is left only on
\* a disconnect event, back to Connecting.
C11_PathWithDirectProvisioning ==
    [][trace' # trace =>
         /\ Transition(StrictPath \cup {<<"Init", "Provisioning">>})
         /\ (Cur(trace) = "Init" /\ Cur(trace') = "Provisioning")
               => load_credentials_nvs(nvs).err # "ESP_OK"]_vars

C11_Witness ==
    /\ trace = <<"Init", "Provisioning", "SavingCredentials", "Rebooting">>
    /\ pc = "restart"

\* C12: every change of the connectivity state calls the registered observer
\* exactly once, in the same step, with the new state.
C12_ObserverNotified ==
    [][(trace' # trace /\ state_cb) => notified' = Append(notified, Cur(trace'))]_vars

\* C28: while the device is in Provisioning no step makes a driver call,
\* a poll or a reconnect, and the only step that changes the connectivity
\* state is an accepted submit, which leads to SavingCredentials.
C28_ProvisioningLongLived ==
    [][Cur(trace) = "Provisioning" =>
         /\ UNCHANGED <<bootlog, retry_count, reconnects>>
         /\ \/ trace' = trace /\ pc' = pc
            \/ /\ trace' = Append(trace, "SavingCredentials")
               /\ http' = "200"
               /\ pc' = "saved"]_vars

\* the device entered Provisioning after MAX_RETRY polls and stayed there
\* until a submit took it to SavingCredentials
C28_Witness ==
    /\ pc = "saved"
    /\ Len(trace) >= 2 /\ trace[Len(trace) - 1] = "Provisioning"
    /\ Cur(trace) = "SavingCredentials"
    /\ Polls = MAX_RETRY

====
